---- MODULE Spec2Model ----
(***************************************************************************)
(* The floor-plan editor of P2_IntDesignApp (the LayoutStage component and *)
(* the geometry helpers of the page module): the element list, the bounded *)
(* undo history, the draft state machine, opening placement and the wall   *)
(* path arithmetic.                                                        *)
(*                                                                         *)
(* Numbers.  World coordinates are whole units.  Every point the model     *)
(* feeds in lies on a grid on which the code's floating point arithmetic   *)
(* is exact (axis-aligned or 3-4-5 segments, even opening widths), so      *)
(* flattenPoints' rounding to two decimals leaves every coordinate as it   *)
(* is.  A distance is compared through its square; a length is the exact   *)
(* integer square root.  An angle is kept as the reduced direction         *)
(* (dx, dy) of the segment, which determines atan2(dy, dx).                *)
(***************************************************************************)
EXTENDS Integers, Sequences, FiniteSets, TLC

VARIABLES
  elements,              \* HomePage.elements: the document
  history,               \* LayoutStage.historyRef.current
  endpointDragSnapshot,  \* LayoutStage.endpointDragSnapshotRef.current
  draft,                 \* LayoutStage.draft
  activeWallTool,        \* LayoutStage.activeWallTool
  interactionMode,       \* LayoutStage.interactionMode
  selectedElementId,     \* LayoutStage.selectedElementId (0 is null)
  orthoMode,             \* LayoutStage.orthoMode
  pendingOpening,        \* LayoutStage.pendingOpening
  pendingSnap,           \* LayoutStage.pendingSnap
  nextId,                \* the ids generateId has handed out so far, plus one
  handleDrag,            \* the endpoint handle Konva is dragging, if any
  renderJobs,            \* HomePage.renderJobs
  renderRequests,        \* the job ids of the render requests in flight
  renderMutation,        \* RenderStage.renderMutation: the job id of the request the
                         \* mounted stage's mutation follows (0 before its first)
  probe,                 \* the last evaluation of a helper on inputs of its own:
                         \* the helper's name, its arguments and its result
  obs                    \* observation of the session, read by the properties only

\* The state of the render stage, which no handler of the layout stage touches.
renderVars == <<renderJobs, renderRequests, renderMutation>>

vars == <<elements, history, endpointDragSnapshot, draft, activeWallTool,
          interactionMode, selectedElementId, orthoMode, pendingOpening,
          pendingSnap, nextId, handleDrag, renderJobs, renderRequests,
          renderMutation, probe, obs>>

----------------------------------------------------------------------------
(* Program constants *)

UNDO_HISTORY_LIMIT == 50
OPENING_SNAP_DISTANCE == 40
WALL_SNAP_THRESHOLD == 16
WALL_CONNECTION_TOLERANCE == 12
defaultWallThicknessMm == 200
DoorWidth == 120
WindowWidth == 200
OpeningHeight == 18
CommitArcSegments == 24
PathArcSegments == 48

----------------------------------------------------------------------------
(* Geometry kernel *)

Pt(px, py) == [x |-> px, y |-> py]

Abs(n) == IF n < 0 THEN 0 - n ELSE n
Min(a, b) == IF a < b THEN a ELSE b
Max(a, b) == IF a > b THEN a ELSE b

RECURSIVE Gcd(_, _)
Gcd(a, b) == IF b = 0 THEN a ELSE Gcd(b, a % b)

\* Math.hypot on a squared length: the integer square root, by bisection.
RECURSIVE IsqrtIn(_, _, _)
IsqrtIn(n, lo, hi) ==
  IF lo >= hi THEN lo
  ELSE LET mid == (lo + hi + 1) \div 2
       IN IF mid * mid <= n THEN IsqrtIn(n, mid, hi) ELSE IsqrtIn(n, lo, mid - 1)

Isqrt(n) == IsqrtIn(n, 0, 46340)

DistSq(a, b) == (b.x - a.x) * (b.x - a.x) + (b.y - a.y) * (b.y - a.y)

distanceBetween(a, b) ==
  IF a.x = b.x THEN Abs(b.y - a.y)
  ELSE IF a.y = b.y THEN Abs(b.x - a.x)
  ELSE Isqrt(DistSq(a, b))

\* Math.atan2(dy, dx), kept as the direction it denotes; atan2(0, 0) is 0.
Atan2(dy, dx) ==
  IF dx = 0 /\ dy = 0 THEN <<1, 0>>
  ELSE LET g == Gcd(Abs(dx), Abs(dy)) IN <<dx \div g, dy \div g>>

AngleZero == <<1, 0>>

clamp(value, lo, hi) == Max(lo, Min(hi, value))

boundsFromPoints(points) ==
  IF Len(points) = 0 THEN [left |-> 0, top |-> 0, width |-> 0, height |-> 0]
  ELSE LET xs == {points[i].x : i \in 1..Len(points)}
           ys == {points[i].y : i \in 1..Len(points)}
           left == CHOOSE v \in xs : \A w \in xs : v <= w
           top == CHOOSE v \in ys : \A w \in ys : v <= w
           right == CHOOSE v \in xs : \A w \in xs : v >= w
           bottom == CHOOSE v \in ys : \A w \in ys : v >= w
       IN [left |-> left, top |-> top,
           width |-> Max(right - left, 1), height |-> Max(bottom - top, 1)]

pxToMm(px) == px * 10

sampleQuadraticPoints(start, control, end, segments) ==
  LET n == Max(2, segments)
      At(i) == Pt(((n - i) * (n - i) * start.x + 2 * (n - i) * i * control.x
                     + i * i * end.x) \div (n * n),
                  ((n - i) * (n - i) * start.y + 2 * (n - i) * i * control.y
                     + i * i * end.y) \div (n * n))
  IN [k \in 1..(n + 1) |-> At(k - 1)]

getWallPathPoints(element) ==
  IF element.geometry.kind = "polyline" THEN element.geometry.points
  ELSE IF element.geometry.kind = "arc"
    THEN sampleQuadraticPoints(element.geometry.points[1], element.geometry.points[2],
                               element.geometry.points[3], PathArcSegments)
  ELSE IF element.geometry.kind = "rectangle" THEN element.geometry.points
  ELSE <<>>

closestPointOnSegment(point, start, end) ==
  LET dx == end.x - start.x
      dy == end.y - start.y
      lengthSquared == IF dx * dx + dy * dy = 0 THEN 1 ELSE dx * dx + dy * dy
      dot == (point.x - start.x) * dx + (point.y - start.y) * dy
      \* t is dot / lengthSquared clamped to [0, 1]; kept as the clamped numerator
      tn == Max(0, Min(lengthSquared, dot))
      closest == Pt(start.x + (tn * dx) \div lengthSquared,
                    start.y + (tn * dy) \div lengthSquared)
  IN [closest |-> closest, distanceSq |-> DistSq(point, closest),
      angle |-> Atan2(dy, dx), tn |-> tn, lengthSquared |-> lengthSquared]

RECURSIVE PathLengthFrom(_, _)
PathLengthFrom(points, i) ==
  IF i >= Len(points) THEN 0
  ELSE distanceBetween(points[i], points[i + 1]) + PathLengthFrom(points, i + 1)

getPathLength(points) == PathLengthFrom(points, 1)

RECURSIVE NormalizeFrom(_, _, _)
NormalizeFrom(points, i, result) ==
  IF i > Len(points) THEN result
  ELSE IF Len(result) = 0 \/ result[Len(result)] # points[i]
    THEN NormalizeFrom(points, i + 1, Append(result, points[i]))
    ELSE NormalizeFrom(points, i + 1, result)

\* A normalisation that drops every point met before, consecutive or not.
normalizePath_Distinct(points) ==
  LET kept == {i \in 1..Len(points) : \A j \in 1..(i - 1) : points[j] # points[i]}
  IN [k \in 1..Cardinality(kept) |->
       points[CHOOSE i \in kept : Cardinality({j \in kept : j <= i}) = k]]

normalizePath(points) == NormalizeFrom(points, 1, <<>>)

\* splitPathAtLength's loop from segment i on, with `remaining` still to walk.
RECURSIVE SplitFrom(_, _, _, _)
SplitFrom(points, i, remaining, prefix) ==
  IF i >= Len(points)
    THEN [prefix |-> points, remainder |-> <<points[Len(points)]>>]
  ELSE
    LET start == points[i]
        end == points[i + 1]
        segLen == distanceBetween(start, end)
        newPoint == Pt(start.x + (remaining * (end.x - start.x)) \div segLen,
                       start.y + (remaining * (end.y - start.y)) \div segLen)
    IN IF segLen = 0 THEN SplitFrom(points, i + 1, remaining, prefix)
       ELSE IF remaining < segLen
         THEN [prefix |-> Append(prefix, newPoint),
               remainder |-> <<newPoint>> \o SubSeq(points, i + 1, Len(points))]
       ELSE IF remaining = segLen
         THEN [prefix |-> Append(prefix, end),
               remainder |-> SubSeq(points, i + 1, Len(points))]
       ELSE SplitFrom(points, i + 1, remaining - segLen, Append(prefix, end))

splitPathAtLength(points, target) ==
  IF Len(points) = 0 THEN [prefix |-> <<>>, remainder |-> <<>>]
  ELSE IF target <= 0 THEN [prefix |-> <<points[1]>>, remainder |-> points]
  ELSE SplitFrom(points, 1, target, <<points[1]>>)

extractPathSection(points, start, end) ==
  IF end <= start THEN <<>>
  ELSE splitPathAtLength(splitPathAtLength(points, start).remainder, end - start).prefix

\* Array.prototype.sort by start: stable insertion.
RECURSIVE InsertByStart(_, _)
InsertByStart(sorted, item) ==
  IF Len(sorted) = 0 THEN <<item>>
  ELSE IF sorted[Len(sorted)].start <= item.start THEN Append(sorted, item)
  ELSE Append(InsertByStart(SubSeq(sorted, 1, Len(sorted) - 1), item), sorted[Len(sorted)])

RECURSIVE SortByStartFrom(_, _, _)
SortByStartFrom(items, i, sorted) ==
  IF i > Len(items) THEN sorted
  ELSE SortByStartFrom(items, i + 1, InsertByStart(sorted, items[i]))

\* A sort that leaves the intervals in the order given.
SortByStart_AsGiven(items) == items

SortByStart(items) == SortByStartFrom(items, 1, <<>>)

\* subtractIntervalsFromPath's forEach over the normalized intervals.
RECURSIVE SubtractFrom(_, _, _, _, _)
SubtractFrom(points, intervals, i, cursor, segments) ==
  IF i > Len(intervals) THEN [cursor |-> cursor, segments |-> segments]
  ELSE
    LET start == intervals[i].start
        end == intervals[i].end
        segment == extractPathSection(points, cursor, start)
        kept == IF start > cursor /\ Len(segment) >= 2
                  THEN Append(segments, normalizePath(segment))
                  ELSE segments
    IN SubtractFrom(points, intervals, i + 1, Max(cursor, end), kept)

subtractIntervalsFromPath(points, intervals) ==
  IF Len(intervals) = 0 THEN <<normalizePath(points)>>
  ELSE
    LET totalLength == getPathLength(points)
        clipped == [i \in 1..Len(intervals) |->
                      [start |-> Max(0, Min(intervals[i].start, totalLength)),
                       end |-> Max(0, Min(intervals[i].end, totalLength))]]
        normalizedIntervals ==
          SortByStart(SelectSeq(clipped, LAMBDA iv : iv.end > iv.start))
        walked == SubtractFrom(points, normalizedIntervals, 1, 0, <<>>)
        finalSegment == extractPathSection(points, walked.cursor, totalLength)
    IN IF totalLength = 0 THEN <<>>
       ELSE IF walked.cursor < totalLength /\ Len(finalSegment) >= 2
         THEN Append(walked.segments, normalizePath(finalSegment))
       ELSE walked.segments

----------------------------------------------------------------------------
(* Snapping an opening to the walls *)

NoSnap == [wallId |-> 0]

\* A prefix that takes in the i-th segment.
RECURSIVE PrefixLength_Through(_, _)
PrefixLength_Through(path, i) ==
  IF i < 1 THEN 0
  ELSE PrefixLength_Through(path, i - 1) + distanceBetween(path[i], path[i + 1])

\* The length of the path before its i-th segment.
RECURSIVE PrefixLength(_, _)
PrefixLength(path, i) ==
  IF i <= 1 THEN 0
  ELSE PrefixLength(path, i - 1) + distanceBetween(path[i - 1], path[i])

\* An inner loop whose candidate replaces best whatever their distances.
SnapAlongPath_Latest(point, wallId, path, totalLength, best) ==
  LET c == closestPointOnSegment(point, path[1], path[2])
  IN [distanceSq |-> c.distanceSq,
      snap |-> [point |-> c.closest, angle |-> c.angle, wallId |-> wallId,
                pathLength |-> totalLength,
                distanceAlongPath |->
                  (c.tn * distanceBetween(path[1], path[2])) \div c.lengthSquared]]

\* findSnapPointOnWalls' inner loop over the segments of one wall's path: the
\* first segment of non-zero length whose closest point is strictly nearer
\* than every candidate before it replaces best.
SnapAlongPath(point, wallId, path, totalLength, best) ==
  LET segmentLength(i) == distanceBetween(path[i], path[i + 1])
      c(i) == closestPointOnSegment(point, path[i], path[i + 1])
      segments == {i \in 1..(Len(path) - 1) : segmentLength(i) # 0}
      distances == [i \in segments |-> c(i).distanceSq]
      nearest == CHOOSE i \in segments :
                   \A j \in segments :
                     distances[i] < distances[j] \/ (distances[i] = distances[j] /\ i <= j)
      found == [distanceSq |-> distances[nearest],
                snap |-> [point |-> c(nearest).closest,
                          angle |-> c(nearest).angle,
                          wallId |-> wallId,
                          pathLength |-> totalLength,
                          distanceAlongPath |->
                            PrefixLength(path, nearest)
                              + (c(nearest).tn * segmentLength(nearest))
                                  \div c(nearest).lengthSquared]]
  IN IF segments = {} THEN best
     ELSE IF best.snap = NoSnap \/ distances[nearest] < best.distanceSq THEN found
     ELSE best

RECURSIVE SnapOverWalls(_, _, _, _)
SnapOverWalls(point, walls, w, best) ==
  IF w > Len(walls) THEN best
  ELSE
    LET path == getWallPathPoints(walls[w])
    IN IF Len(path) < 2 THEN SnapOverWalls(point, walls, w + 1, best)
       ELSE SnapOverWalls(point, walls, w + 1,
              SnapAlongPath(point, walls[w].id, path, getPathLength(path), best))

findSnapPointOnWalls(point, walls) ==
  LET best == SnapOverWalls(point, walls, 1, [distanceSq |-> 0, snap |-> NoSnap])
  IN IF best.snap = NoSnap
        \/ best.distanceSq > OPENING_SNAP_DISTANCE * OPENING_SNAP_DISTANCE
       THEN NoSnap
       ELSE best.snap

----------------------------------------------------------------------------
(* The document *)

IsWall(element) == element.type = "wall"
IsOpening(element) == element.geometry.kind = "opening"

HasId(doc, id) == \E i \in 1..Len(doc) : doc[i].id = id
IndexOf(doc, id) == CHOOSE i \in 1..Len(doc) : doc[i].id = id
ElementById(doc, id) == doc[IndexOf(doc, id)]
CountOfType(doc, type) == Len(SelectSeq(doc, LAMBDA e : e.type = type))

\* A generator that hands out two ids in turn.
generateId_Repeats(counter) == 1 + (counter % 2)

\* crypto.randomUUID(): the k-th call of the session returns an id no earlier call
\* returned; ids are numbered in the order they are drawn.
generateId(counter) == counter

defaultColor == "#111111"
defaultWallMaterial == "Generic wall"

palette(type) ==
  IF type = "door"
    THEN [label |-> "Door", fill |-> "#f97316", width |-> DoorWidth, height |-> OpeningHeight]
    ELSE [label |-> "Window", fill |-> "#3c6ff0", width |-> WindowWidth, height |-> OpeningHeight]

wallElements(doc) == SelectSeq(doc, IsWall)

\* wallSnapRefs: both ends of every wall path, in document order.
RECURSIVE SnapRefsFrom(_, _)
SnapRefsFrom(walls, i) ==
  IF i > Len(walls) THEN <<>>
  ELSE LET path == getWallPathPoints(walls[i])
       IN (IF Len(path) < 2 THEN <<>>
           ELSE << [wallId |-> walls[i].id, point |-> path[1]],
                   [wallId |-> walls[i].id, point |-> path[Len(path)]] >>)
          \o SnapRefsFrom(walls, i + 1)

wallSnapRefs(doc) == SnapRefsFrom(wallElements(doc), 1)

wallSnapPoints(doc) ==
  LET refs == wallSnapRefs(doc) IN [i \in 1..Len(refs) |-> refs[i].point]

\* An ortho lock that leaves the point where it is.
applyOrthoPoint_Free(ortho, point, anchor) == point

applyOrthoPoint(ortho, point, anchor) ==
  IF ~ortho THEN point
  ELSE IF Abs(point.x - anchor.x) >= Abs(point.y - anchor.y)
    THEN Pt(point.x, anchor.y)
    ELSE Pt(anchor.x, point.y)

\* getSnappedPoint's forEach: the first candidate strictly closer than the best so far.
RECURSIVE ClosestCandidate(_, _, _, _, _)
ClosestCandidate(basePoint, candidates, i, closest, bestSq) ==
  IF i > Len(candidates) THEN closest
  ELSE IF DistSq(basePoint, candidates[i]) < bestSq
    THEN ClosestCandidate(basePoint, candidates, i + 1, candidates[i],
                          DistSq(basePoint, candidates[i]))
    ELSE ClosestCandidate(basePoint, candidates, i + 1, closest, bestSq)

\* anchor is a one-element sequence, or empty when no anchor is given.
getSnappedPoint(doc, ortho, point, anchor, extraPoints) ==
  LET basePoint == IF Len(anchor) > 0 THEN applyOrthoPoint(ortho, point, anchor[1]) ELSE point
  IN ClosestCandidate(basePoint, wallSnapPoints(doc) \o extraPoints, 1, basePoint,
                      WALL_SNAP_THRESHOLD * WALL_SNAP_THRESHOLD)

\* openingsByWall.get(wallId): the cut intervals of the openings bound to the wall.
\* Cut-outs as wide on each side of the centre as the whole opening.
openingsByWall_FullWidth(doc, wallId) ==
  LET bound == SelectSeq(doc, LAMBDA e : IsOpening(e) /\ e.geometry.wallId = wallId)
  IN SortByStart([i \in 1..Len(bound) |->
       [start |-> Max(0, bound[i].geometry.distanceAlongPath - bound[i].width),
        end |-> bound[i].geometry.distanceAlongPath + bound[i].width]])

openingsByWall(doc, wallId) ==
  LET bound == SelectSeq(doc, LAMBDA e : IsOpening(e) /\ e.geometry.wallId = wallId)
  IN SortByStart([i \in 1..Len(bound) |->
       [start |-> Max(0, bound[i].geometry.distanceAlongPath - bound[i].width \div 2),
        end |-> bound[i].geometry.distanceAlongPath + bound[i].width \div 2]])

\* wallShapes: the visible sub-paths of one wall.
wallSegments(doc, wall) ==
  LET pathPoints == getWallPathPoints(wall)
  IN IF Len(pathPoints) < 2 THEN <<>>
     ELSE subtractIntervalsFromPath(pathPoints, openingsByWall(doc, wall.id))

\* openingShapes: the ids of the elements drawn as a door or a window.
openingShapes(doc) ==
  LET drawn == SelectSeq(doc, IsOpening)
  IN [i \in 1..Len(drawn) |-> drawn[i].id]

----------------------------------------------------------------------------
(* The wall mesh: the polygons of wallShapes, the connection patches and the
   outline edges, as one render computes them.  Mesh coordinates are in half
   millimetres, a stage unit being 10 mm, so that half the thickness of a wall
   is a whole number. *)

ToMesh(p) == Pt(2 * pxToMm(p.x), 2 * pxToMm(p.y))

\* mmToPx(thicknessMm) / 2, with mmToPx(mm) = Math.max(4, mm / 10).
HalfStroke(element) == Max(40, element.thicknessMm)

Sgn(n) == IF n < 0 THEN 0 - 1 ELSE IF n > 0 THEN 1 ELSE 0

\* normalizeVector(dx, dy) times amount; Math.hypot(0, 0) || 1 is 1.
normalizeVector(dx, dy, amount) ==
  LET length == IF dx = 0 /\ dy = 0 THEN 1
                ELSE IF dy = 0 THEN Abs(dx)
                ELSE IF dx = 0 THEN Abs(dy)
                ELSE Isqrt(dx * dx + dy * dy)
  IN Pt(Sgn(dx) * ((Abs(dx) * amount) \div length),
        Sgn(dy) * ((Abs(dy) * amount) \div length))

extendOpenPath(points, extension, extendStart, extendEnd) ==
  IF extension <= 0 \/ Len(points) < 2 THEN points
  ELSE IF points[1] = points[Len(points)] THEN points
  ELSE IF ~extendStart /\ ~extendEnd THEN points
  ELSE
    LET n == Len(points)
        s == normalizeVector(points[2].x - points[1].x, points[2].y - points[1].y,
                             extension)
        e == normalizeVector(points[n].x - points[n - 1].x,
                             points[n].y - points[n - 1].y, extension)
    IN [i \in 1..n |->
         IF i = 1 /\ extendStart THEN Pt(points[1].x - s.x, points[1].y - s.y)
         ELSE IF i = n /\ extendEnd THEN Pt(points[n].x + e.x, points[n].y + e.y)
         ELSE points[i]]

\* buildSegmentPolygon, given half the width.
buildSegmentPolygon(start, end, half) ==
  LET direction == normalizeVector(end.x - start.x, end.y - start.y, half)
      perp == Pt(0 - direction.y, direction.x)
  IN << Pt(start.x + perp.x, start.y + perp.y), Pt(end.x + perp.x, end.y + perp.y),
        Pt(end.x - perp.x, end.y - perp.y), Pt(start.x - perp.x, start.y - perp.y) >>

\* edgeKey: the two point keys in string order, that is the unordered pair.
edgeKey(a, b) == {a, b}

\* An edge registration that never removes an edge.
registerOutlineEdge_Keeps(outline, pointA, pointB, color) ==
  IF \E edge \in outline : edge.key = edgeKey(pointA, pointB) THEN outline
  ELSE outline \cup {[key |-> edgeKey(pointA, pointB), color |-> color]}

\* registerOutlineEdge on outlineEdgeMap: a key already present is deleted.
registerOutlineEdge(outline, pointA, pointB, color) ==
  IF \E edge \in outline : edge.key = edgeKey(pointA, pointB)
    THEN {edge \in outline : edge.key # edgeKey(pointA, pointB)}
    ELSE outline \cup {[key |-> edgeKey(pointA, pointB), color |-> color]}

\* addConnectionFragment on connectionPatchMap, kept in insertion order.
addConnectionFragment(patchMap, point, fragment) ==
  IF \E k \in 1..Len(patchMap) : patchMap[k].point = point
    THEN [k \in 1..Len(patchMap) |->
           IF patchMap[k].point = point
             THEN [patchMap[k] EXCEPT !.fragments = Append(@, fragment)]
             ELSE patchMap[k]]
    ELSE Append(patchMap, [point |-> point, fragments |-> <<fragment>>])

\* What a render starts from: the two maps are created empty.  contributions
\* lists every edge registration with the shape that made it.
EmptyMesh ==
  [shapes |-> <<>>, patchMap |-> <<>>, patches |-> <<>>, outline |-> {},
   contributions |-> <<>>]

RECURSIVE RegisterEdges(_, _, _, _, _)
RegisterEdges(mesh, edges, k, color, shape) ==
  IF k > Len(edges) THEN mesh
  ELSE RegisterEdges(
         [mesh EXCEPT
            !.outline = registerOutlineEdge(@, edges[k][1], edges[k][2], color),
            !.contributions = Append(@, [key |-> edgeKey(edges[k][1], edges[k][2]),
                                         shape |-> shape])],
         edges, k + 1, color, shape)

RECURSIVE AddFragments(_, _, _, _)
AddFragments(patchMap, point, fragments, k) ==
  IF k > Len(fragments) THEN patchMap
  ELSE AddFragments(addConnectionFragment(patchMap, point, fragments[k]),
                    point, fragments, k + 1)

\* The body of wallShapes' inner flatMap for one visible sub-path.
SegmentMesh(mesh, doc, element, segment, idx, selected) ==
  LET half == HalfStroke(element)
      refs == wallSnapRefs(doc)
      Connected(p) ==
        \E k \in 1..Len(refs) :
          /\ refs[k].wallId # element.id
          /\ 4 * DistSq(refs[k].point, p)
               <= WALL_CONNECTION_TOLERANCE * WALL_CONNECTION_TOLERANCE
      startConnected == Connected(segment[1])
      endConnected == Connected(segment[Len(segment)])
      extendedSegment ==
        extendOpenPath([i \in 1..Len(segment) |-> ToMesh(segment[i])], half,
                       startConnected, endConnected)
      polygon == buildSegmentPolygon(extendedSegment[1], extendedSegment[2], half)
      isSelected == element.id = selected
      outlineColor == IF isSelected THEN "#4f46e5" ELSE "#000000"
      shape == [kind |-> "wall", wallId |-> element.id, idx |-> idx]
      edges == << <<polygon[1], polygon[2]>>, <<polygon[3], polygon[4]>> >>
                 \o (IF endConnected THEN <<>> ELSE << <<polygon[2], polygon[3]>> >>)
                 \o (IF startConnected THEN <<>> ELSE << <<polygon[4], polygon[1]>> >>)
      Fragment(a, b) ==
        [wallId |-> element.id, points |-> <<polygon[a], polygon[b]>>,
         color |-> element.fill]
      atEnd == IF endConnected
                 THEN AddFragments(mesh.patchMap, ToMesh(segment[Len(segment)]),
                                   <<Fragment(2, 1), Fragment(3, 4)>>, 1)
                 ELSE mesh.patchMap
      atStart == IF startConnected
                   THEN AddFragments(atEnd, ToMesh(segment[1]),
                                     <<Fragment(1, 2), Fragment(4, 3)>>, 1)
                   ELSE atEnd
  IN IF Len(extendedSegment) = 2
       THEN [RegisterEdges(mesh, edges, 1, outlineColor, shape) EXCEPT
               !.patchMap = atStart,
               !.shapes = Append(@, [kind |-> "polygon", wallId |-> element.id,
                                     idx |-> idx, points |-> polygon,
                                     fill |-> element.fill, selected |-> isSelected])]
       ELSE [mesh EXCEPT
               !.shapes = Append(@, [kind |-> "line", wallId |-> element.id,
                                     idx |-> idx, points |-> extendedSegment,
                                     fill |-> element.fill, selected |-> isSelected])]

RECURSIVE SegmentsMesh(_, _, _, _, _, _)
SegmentsMesh(mesh, doc, element, segments, idx, selected) ==
  IF idx > Len(segments) THEN mesh
  ELSE SegmentsMesh(SegmentMesh(mesh, doc, element, segments[idx], idx, selected),
                    doc, element, segments, idx + 1, selected)

\* wallShapes: every wall of the document in order, every visible sub-path in order.
RECURSIVE wallShapes(_, _, _, _)
wallShapes(mesh, doc, i, selected) ==
  IF i > Len(doc) THEN mesh
  ELSE IF ~IsWall(doc[i]) \/ IsOpening(doc[i]) THEN wallShapes(mesh, doc, i + 1, selected)
  ELSE wallShapes(SegmentsMesh(mesh, doc, doc[i], wallSegments(doc, doc[i]), 1, selected),
                  doc, i + 1, selected)

\* The direction of Math.atan2(mid.y - point.y, mid.x - point.x), mid being the
\* middle of the fragment.
FragmentDirection(fragment, point) ==
  Pt(fragment.points[1].x + fragment.points[2].x - 2 * point.x,
     fragment.points[1].y + fragment.points[2].y - 2 * point.y)

\* Where atan2 puts a direction: below the axis, on its positive half (or
\* nowhere, atan2(0, 0) being 0), above it, on its negative half.
AngleClass(v) ==
  IF v.y < 0 THEN 0
  ELSE IF v.y = 0 /\ v.x >= 0 THEN 1
  ELSE IF v.y > 0 THEN 2
  ELSE 3

\* atan2 of u is less than atan2 of v.
AngleLess(u, v) ==
  \/ AngleClass(u) < AngleClass(v)
  \/ /\ AngleClass(u) = AngleClass(v)
     /\ AngleClass(u) \in {0, 2}
     /\ u.x * v.y - u.y * v.x > 0

\* Array.prototype.sort by angle, which is stable.
InsertByAngle(sorted, fragment, point) ==
  LET later == {j \in 1..Len(sorted) :
                  AngleLess(FragmentDirection(fragment, point),
                            FragmentDirection(sorted[j], point))}
      at == IF later = {} THEN Len(sorted) + 1
            ELSE CHOOSE j \in later : \A k \in later : j <= k
  IN SubSeq(sorted, 1, at - 1) \o <<fragment>> \o SubSeq(sorted, at, Len(sorted))

RECURSIVE SortByAngle(_, _, _, _)
SortByAngle(fragments, point, k, sorted) ==
  IF k > Len(fragments) THEN sorted
  ELSE SortByAngle(fragments, point, k + 1, InsertByAngle(sorted, fragments[k], point))

NoPoint == [none |-> TRUE]

\* lineIntersection of the lines through a1, a2 and through b1, b2; the
\* directions are reduced to lowest terms first, which leaves the lines as they are.
lineIntersection(a1, a2, b1, b2) ==
  LET rg == Max(1, Gcd(Abs(a2.x - a1.x), Abs(a2.y - a1.y)))
      sg == Max(1, Gcd(Abs(b2.x - b1.x), Abs(b2.y - b1.y)))
      r == Pt((a2.x - a1.x) \div rg, (a2.y - a1.y) \div rg)
      s == Pt((b2.x - b1.x) \div sg, (b2.y - b1.y) \div sg)
      denom == r.x * s.y - r.y * s.x
      num == (b1.x - a1.x) * s.y - (b1.y - a1.y) * s.x
      Quot(n, d) == IF d < 0 THEN (0 - n) \div (0 - d) ELSE n \div d
  IN IF denom = 0 THEN NoPoint
     ELSE Pt(a1.x + Quot(num * r.x, denom), a1.y + Quot(num * r.y, denom))

\* The corner vertices of one junction: consecutive fragments of different walls.
RECURSIVE PatchVertices(_, _, _)
PatchVertices(sorted, i, vertices) ==
  IF i > Len(sorted) THEN vertices
  ELSE
    LET current == sorted[i]
        next == sorted[(i % Len(sorted)) + 1]
        intersection == lineIntersection(current.points[1], current.points[2],
                                         next.points[1], next.points[2])
    IN IF current.wallId = next.wallId THEN PatchVertices(sorted, i + 1, vertices)
       ELSE IF intersection = NoPoint THEN PatchVertices(sorted, i + 1, vertices)
       ELSE PatchVertices(sorted, i + 1, Append(vertices, intersection))

\* connectionPatches: one polygon for every junction with three corner
\* vertices or more, its edges registered in the outline.
RECURSIVE connectionPatches(_, _)
connectionPatches(mesh, k) ==
  IF k > Len(mesh.patchMap) THEN mesh
  ELSE
    LET entry == mesh.patchMap[k]
        sorted == SortByAngle(entry.fragments, entry.point, 1, <<>>)
        vertices == PatchVertices(sorted, 1, <<>>)
        n == Len(vertices)
        edges == [i \in 1..n |-> <<vertices[i], vertices[(i % n) + 1]>>]
    IN IF Len(entry.fragments) < 2 THEN connectionPatches(mesh, k + 1)
       ELSE IF n < 3 THEN connectionPatches(mesh, k + 1)
       ELSE connectionPatches(
              [RegisterEdges(mesh, edges, 1, "#000000",
                             [kind |-> "patch", point |-> entry.point])
                 EXCEPT !.patches = Append(@, [point |-> entry.point,
                                               points |-> vertices,
                                               color |-> entry.fragments[1].color])],
              k + 1)

\* One render of the walls: both maps start empty, wallShapes fills them, then
\* connectionPatches reads the one and adds to the other.
WallMesh(doc, selected) ==
  connectionPatches(wallShapes(EmptyMesh, doc, 1, selected), 1)

----------------------------------------------------------------------------
(* Edit history *)

\* A push that never discards the oldest snapshot.
PushSnapshot_Unbounded(stack, doc) == Append(stack, doc)

\* historyRef.current.push(elements), then shift() when over the limit.
PushSnapshot(stack, doc) ==
  LET pushed == Append(stack, doc)
  IN IF Len(pushed) > UNDO_HISTORY_LIMIT THEN Tail(pushed) ELSE pushed

Rejected == [applied |-> FALSE, doc |-> <<>>]
Produced(doc) == [applied |-> TRUE, doc |-> doc]

\* An applyElementsChange that snapshots the list it is about to store.
applyElementsChange_SnapshotsNext(produced, preserveSelectionId, transient) ==
  IF ~produced.applied
    THEN [applied |-> FALSE, elements |-> elements, history |-> history,
          selectedElementId |-> selectedElementId]
    ELSE [applied |-> TRUE,
          elements |-> produced.doc,
          history |-> IF transient THEN history ELSE PushSnapshot(history, produced.doc),
          selectedElementId |->
            IF preserveSelectionId # 0
              THEN (IF HasId(produced.doc, preserveSelectionId)
                      THEN preserveSelectionId ELSE 0)
            ELSE IF ~transient THEN 0
            ELSE selectedElementId]

\* applyElementsChange on what the producer returned; preserveSelectionId 0 is none.
applyElementsChange(produced, preserveSelectionId, transient) ==
  IF ~produced.applied
    THEN [applied |-> FALSE, elements |-> elements, history |-> history,
          selectedElementId |-> selectedElementId]
    ELSE [applied |-> TRUE,
          elements |-> produced.doc,
          history |-> IF transient THEN history ELSE PushSnapshot(history, elements),
          selectedElementId |->
            IF preserveSelectionId # 0
              THEN (IF HasId(produced.doc, preserveSelectionId)
                      THEN preserveSelectionId ELSE 0)
            ELSE IF ~transient THEN 0
            ELSE selectedElementId]

----------------------------------------------------------------------------
(* Producers: what a handler hands to applyElementsChange *)

\* commitWallElements: the producer and the number of ids it draws.
commitWallElements(current, counter, entries) ==
  LET validEntries == SelectSeq(entries, LAMBDA entry : Len(entry.rawPoints) >= 2)
      existingWalls == CountOfType(current, "wall")
      additions ==
        [idx \in 1..Len(validEntries) |->
          LET bounds == boundsFromPoints(validEntries[idx].rawPoints)
          IN [id |-> generateId(counter + idx - 1),
              type |-> "wall",
              label |-> [base |-> "Wall", n |-> existingWalls + idx],
              width |-> bounds.width,
              height |-> bounds.height,
              left |-> bounds.left,
              top |-> bounds.top,
              angle |-> AngleZero,
              fill |-> defaultColor,
              materialName |-> defaultWallMaterial,
              geometry |-> validEntries[idx].geometry,
              thicknessMm |-> defaultWallThicknessMm]]
  IN IF Len(validEntries) = 0
       THEN [produced |-> Rejected, drawn |-> 0]
       ELSE [produced |-> Produced(current \o additions), drawn |-> Len(validEntries)]

PolylineEntry(a, b) ==
  [geometry |-> [kind |-> "polyline", points |-> <<a, b>>], rawPoints |-> <<a, b>>]

\* A finalizePolyline that commits every pair of consecutive points as given.
finalizePolyline_Raw(points) ==
  [i \in 1..(Len(points) - 1) |-> PolylineEntry(points[i], points[i + 1])]

\* finalizePolyline: the entries it commits (none when it returns early).
finalizePolyline(points) ==
  LET normalizedPoints == normalizePath(points)
      pairs == [i \in 1..(Len(normalizedPoints) - 1) |->
                 PolylineEntry(normalizedPoints[i], normalizedPoints[i + 1])]
  IN IF Len(normalizedPoints) < 2 THEN <<>>
     ELSE SelectSeq(pairs, LAMBDA entry :
            ~(4 * DistSq(entry.rawPoints[1], entry.rawPoints[2]) < 1))

\* A rectangle whose closing edge is left out.
finalizeRectangle_Open(start, end) ==
  << PolylineEntry(Pt(start.x, start.y), Pt(end.x, start.y)),
     PolylineEntry(Pt(end.x, start.y), Pt(end.x, end.y)),
     PolylineEntry(Pt(end.x, end.y), Pt(start.x, end.y)) >>

\* A rectangle committed as one closed polyline wall.
finalizeRectangle_Loop(start, end) ==
  LET loop == << Pt(start.x, start.y), Pt(end.x, start.y), Pt(end.x, end.y),
                 Pt(start.x, end.y), Pt(start.x, start.y) >>
  IN << [geometry |-> [kind |-> "polyline", points |-> loop], rawPoints |-> loop] >>

finalizeRectangle(start, end) ==
  LET corners == << Pt(start.x, start.y), Pt(end.x, start.y),
                    Pt(end.x, end.y), Pt(start.x, end.y) >>
  IN IF Abs(end.x - start.x) < 2 \/ Abs(end.y - start.y) < 2 THEN <<>>
     ELSE << PolylineEntry(corners[1], corners[2]), PolylineEntry(corners[2], corners[3]),
             PolylineEntry(corners[3], corners[4]), PolylineEntry(corners[4], corners[1]) >>

\* An arc commit that stores the chord from the start to the end as a polyline.
finalizeArc_Chord(points) ==
  IF Len(points) # 3 THEN <<>>
  ELSE << PolylineEntry(points[1], points[3]) >>

finalizeArc(points) ==
  IF Len(points) # 3 THEN <<>>
  ELSE << [geometry |-> [kind |-> "arc", points |-> points],
           rawPoints |-> sampleQuadraticPoints(points[1], points[2], points[3],
                                               CommitArcSegments)] >>

OpeningGeometry(width, height, left, top, snap, heightMm) ==
  [kind |-> "opening", width |-> width, height |-> height, x |-> left, y |-> top,
   angle |-> snap.angle, wallId |-> snap.wallId,
   distanceAlongPath |-> snap.distanceAlongPath,
   wallPathLength |-> snap.pathLength, heightMm |-> heightMm]

NoOpening == [type |-> "none"]

\* commitOpeningSnap for a pending opening (existing is undefined).
commitNewOpening(current, counter, opening, snap) ==
  LET left == snap.point.x - opening.width \div 2
      top == snap.point.y - opening.height \div 2
      count == CountOfType(current, opening.type) + 1
      openingElement ==
        [id |-> generateId(counter),
         type |-> opening.type,
         label |-> [base |-> opening.label, n |-> count],
         width |-> opening.width,
         height |-> opening.height,
         left |-> left, top |-> top, angle |-> snap.angle,
         fill |-> palette(opening.type).fill,
         geometry |-> OpeningGeometry(opening.width, opening.height, left, top, snap,
                                      opening.infoHeightMm)]
  IN IF opening.width = 0 \/ opening.height = 0 THEN Rejected
     ELSE IF ~HasId(current, snap.wallId) THEN Rejected
     ELSE Produced(Append(current, openingElement))

\* A drag commit that moves the opening and leaves it bound where it was.
commitExistingOpening_KeepsWall(current, snap, existing) ==
  LET left == snap.point.x - existing.width \div 2
      top == snap.point.y - existing.height \div 2
      updated ==
        [existing EXCEPT !.left = left, !.top = top, !.angle = snap.angle,
           !.geometry = [existing.geometry EXCEPT !.x = left, !.y = top,
                                                  !.angle = snap.angle]]
  IN IF ~HasId(current, existing.id) THEN Rejected
     ELSE Produced([current EXCEPT ![IndexOf(current, existing.id)] = updated])

\* commitOpeningSnap for an opening being dragged (opening is null).
commitExistingOpening(current, snap, existing) ==
  LET left == snap.point.x - existing.width \div 2
      top == snap.point.y - existing.height \div 2
      updated ==
        [existing EXCEPT !.left = left, !.top = top, !.angle = snap.angle,
           !.geometry = OpeningGeometry(existing.width, existing.height, left, top, snap,
                                        existing.geometry.heightMm)]
  IN IF existing.width = 0 \/ existing.height = 0 THEN Rejected
     ELSE IF ~HasId(current, snap.wallId) THEN Rejected
     ELSE IF ~HasId(current, existing.id) THEN Rejected
     ELSE Produced([current EXCEPT ![IndexOf(current, existing.id)] = updated])

PolylineOf(element, path) ==
  LET bounds == boundsFromPoints(path)
  IN [element EXCEPT !.left = bounds.left, !.top = bounds.top,
                     !.width = bounds.width, !.height = bounds.height,
                     !.geometry = [kind |-> "polyline", points |-> path]]

Moved(point, delta) == Pt(point.x + delta.x, point.y + delta.y)

\* An adjustment that looks at the first point of the path only.
adjustWallEndpointGeometry_StartOnly(element, referencePoint, delta, tolerance) ==
  LET path == getWallPathPoints(element)
      first == DistSq(path[1], referencePoint) <= tolerance * tolerance
  IN IF IsOpening(element) \/ Len(path) < 2 \/ ~first
       THEN [changed |-> FALSE, element |-> element]
       ELSE [changed |-> TRUE,
             element |-> PolylineOf(element, [path EXCEPT ![1] = Moved(path[1], delta)])]

\* adjustWallEndpointGeometry; the element itself stands for null (nothing moved).
adjustWallEndpointGeometry(element, referencePoint, delta, tolerance) ==
  LET path == getWallPathPoints(element)
      first == DistSq(path[1], referencePoint) <= tolerance * tolerance
      last == DistSq(path[Len(path)], referencePoint) <= tolerance * tolerance
      path1 == IF first THEN [path EXCEPT ![1] = Moved(path[1], delta)] ELSE path
      path2 == IF last THEN [path1 EXCEPT ![Len(path)] = Moved(path1[Len(path)], delta)]
               ELSE path1
  IN IF IsOpening(element) \/ Len(path) < 2 \/ ~(first \/ last)
       THEN [changed |-> FALSE, element |-> element]
       ELSE [changed |-> TRUE, element |-> PolylineOf(element, path2)]

RECURSIVE AdjustAll(_, _, _)
AdjustAll(element, adjustments, k) ==
  IF k > Len(adjustments) THEN element
  ELSE AdjustAll(adjustWallEndpointGeometry(element, adjustments[k].origin,
                   adjustments[k].delta, WALL_CONNECTION_TOLERANCE).element,
                 adjustments, k + 1)

\* A propagation that carries the openings along with the end of the moved wall.
propagateWallConnections_CarriesOpenings(doc, movedIndex, originalEndpoints, updatedEndpoints) ==
  LET delta == Pt(updatedEndpoints[2].x - originalEndpoints[2].x,
                  updatedEndpoints[2].y - originalEndpoints[2].y)
  IN [i \in 1..Len(doc) |->
       IF IsOpening(doc[i])
         THEN [doc[i] EXCEPT !.left = @ + delta.x, !.top = @ + delta.y,
                             !.geometry.x = @ + delta.x, !.geometry.y = @ + delta.y]
         ELSE AdjustAll(doc[i], <<[origin |-> originalEndpoints[2], delta |-> delta]>>, 1)]

propagateWallConnections(doc, movedIndex, originalEndpoints, updatedEndpoints) ==
  LET all == [idx \in 1..2 |->
               [origin |-> originalEndpoints[idx],
                delta |-> Pt(updatedEndpoints[idx].x - originalEndpoints[idx].x,
                             updatedEndpoints[idx].y - originalEndpoints[idx].y)]]
      adjustments == SelectSeq(all, LAMBDA a : a.delta.x # 0 \/ a.delta.y # 0)
  IN IF Len(adjustments) = 0 THEN doc
     ELSE [i \in 1..Len(doc) |->
            IF i = movedIndex \/ IsOpening(doc[i]) THEN doc[i]
            ELSE AdjustAll(doc[i], adjustments, 1)]

\* applyWallTranslation's search for the snap adjustment over otherRefs x endpoints.
RECURSIVE TranslationAdjust(_, _, _, _)
TranslationAdjust(otherRefs, endpoints, k, best) ==
  IF k > 2 * Len(otherRefs) THEN best
  ELSE LET point == otherRefs[(k + 1) \div 2].point
           endpoint == endpoints[2 - (k % 2)]
       IN IF DistSq(endpoint, point) < best.distSq
            THEN TranslationAdjust(otherRefs, endpoints, k + 1,
                   [distSq |-> DistSq(endpoint, point), snapped |-> TRUE,
                    adjust |-> Pt(point.x - endpoint.x, point.y - endpoint.y)])
            ELSE TranslationAdjust(otherRefs, endpoints, k + 1, best)

applyWallTranslation(current, wallId, dx, dy) ==
  IF (dx = 0 /\ dy = 0) \/ ~HasId(current, wallId) THEN Rejected
  ELSE
    LET index == IndexOf(current, wallId)
        wall == current[index]
        pathPoints == getWallPathPoints(wall)
        shifted == [i \in 1..Len(pathPoints) |-> Moved(pathPoints[i], Pt(dx, dy))]
        otherRefs == SelectSeq(wallSnapRefs(current), LAMBDA ref : ref.wallId # wallId)
        best == TranslationAdjust(otherRefs, <<shifted[1], shifted[Len(shifted)]>>, 1,
                  [distSq |-> WALL_SNAP_THRESHOLD * WALL_SNAP_THRESHOLD,
                   snapped |-> FALSE, adjust |-> Pt(0, 0)])
        translated == IF Len(otherRefs) > 0 /\ best.snapped
                        THEN [i \in 1..Len(shifted) |-> Moved(shifted[i], best.adjust)]
                        ELSE shifted
        copy == [current EXCEPT ![index] = PolylineOf(wall, translated)]
    IN IF IsOpening(wall) \/ Len(pathPoints) < 2 THEN Rejected
       ELSE Produced(propagateWallConnections(copy, index,
              <<pathPoints[1], pathPoints[Len(pathPoints)]>>,
              <<translated[1], translated[Len(translated)]>>))

applyWallEndpointUpdate(current, ortho, wallId, endpointIndex, point) ==
  IF ~HasId(current, wallId) THEN Rejected
  ELSE
    LET index == IndexOf(current, wallId)
        wall == current[index]
        pathPoints == getWallPathPoints(wall)
        targetIndex == IF endpointIndex = 0 THEN 1 ELSE Len(pathPoints)
        anchorIndex == IF endpointIndex = 0 THEN Min(2, Len(pathPoints))
                       ELSE Max(Len(pathPoints) - 1, 1)
        snappedPoint == getSnappedPoint(current, ortho, point,
                                        <<pathPoints[anchorIndex]>>, <<>>)
        updatedPath == [pathPoints EXCEPT ![targetIndex] = snappedPoint]
        next == [current EXCEPT ![index] = PolylineOf(wall, updatedPath)]
    IN IF wall.geometry.kind # "polyline" \/ Len(pathPoints) < 2 THEN Rejected
       ELSE IF 4 * DistSq(snappedPoint, pathPoints[targetIndex]) < 1 THEN Rejected
       ELSE Produced(propagateWallConnections(next, index,
              <<pathPoints[1], pathPoints[Len(pathPoints)]>>,
              <<updatedPath[1], updatedPath[Len(updatedPath)]>>))

\* An update that takes the element out of its place and puts it last.
updateSelectedElement_MovesLast(current, selected, updated) ==
  IF selected = 0 \/ ~HasId(current, selected) THEN Rejected
  ELSE Produced(Append(SelectSeq(current, LAMBDA e : e.id # selected), updated))

\* updateSelectedElement's producer; `updated` is what the updater returned.
updateSelectedElement(current, selected, updated) ==
  IF selected = 0 \/ ~HasId(current, selected) THEN Rejected
  ELSE Produced([current EXCEPT ![IndexOf(current, selected)] = updated])

getOpeningCenter(element) ==
  Pt(element.left + element.width \div 2, element.top + element.height \div 2)

\* handleOpeningDimensionUpdate's updater for 'width'.
WithOpeningWidth(element, valueMm) ==
  LET pxValue == Max(20, valueMm) \div 10
      center == getOpeningCenter(element)
  IN [element EXCEPT !.width = pxValue,
        !.left = center.x - pxValue \div 2,
        !.top = center.y - element.height \div 2,
        !.geometry = [element.geometry EXCEPT !.width = pxValue,
                         !.x = center.x - pxValue \div 2,
                         !.y = center.y - element.height \div 2]]

----------------------------------------------------------------------------
(* State *)

NoDraft == [mode |-> "none", points |-> <<>>]
NoProbe == [of |-> "none"]
NoDrag == [wallId |-> 0, endpointIndex |-> 0]

\* What the properties read about the session so far:
\*   commits     committing (non-transient) changes applied
\*   dragPushes  snapshots captured by endpoint drag starts
\*   phase       "edit" until the first undo, "undo" while only undos follow,
\*               "mixed" once a change follows an undo
\*   undoRun     undo invocations of the undo phase
\*   gesture     the last drawing gesture that was committed: its tool, the
\*               number of its points, whether they all were one point, and
\*               the walls it added
\*   escape      the last Escape that met a draft: the number of the draft's
\*               points before and after it
\*   mesh        the last render of the walls that was looked at: the document
\*               and the selection it drew, how many renders in a row have
\*               drawn them (counted up to 2), and what it produced
\*   dragBase, dragBaseLen, dragChanged
\*               the document and the history length when the endpoint drag in
\*               progress started, and whether one of its moves changed the document
\*   lateReturns the render requests that returned, with an image or an error,
\*               when the job list no longer held their entry
ObsInit ==
  [commits |-> 0, dragPushes |-> 0, phase |-> "edit", undoRun |-> 0,
   gesture |-> [mode |-> "none", points |-> 0, onePoint |-> FALSE, added |-> 0],
   escape |-> [had |-> 0, left |-> 0],
   mesh |-> [doc |-> <<>>, selected |-> 0, runs |-> 1, out |-> EmptyMesh],
   dragBase |-> <<>>, dragBaseLen |-> 0, dragChanged |-> FALSE,
   lateReturns |-> {}]

Init ==
  /\ elements = <<>>
  /\ history = <<>>
  /\ endpointDragSnapshot = FALSE
  /\ draft = NoDraft
  /\ activeWallTool = "polyline"
  /\ interactionMode = "draw"
  /\ selectedElementId = 0
  /\ orthoMode = TRUE
  /\ pendingOpening = NoOpening
  /\ pendingSnap = NoSnap
  /\ nextId = 1
  /\ handleDrag = NoDrag
  /\ renderJobs = <<>>
  /\ renderRequests = {}
  /\ renderMutation = 0
  /\ probe = NoProbe
  /\ obs = ObsInit

ObsChange(r, transient) ==
  IF r.applied /\ ~transient
    THEN [obs EXCEPT !.commits = @ + 1,
                     !.phase = IF @ = "edit" THEN "edit" ELSE "mixed",
                     !.undoRun = 0]
    ELSE obs

\* The state applyElementsChange leaves: setElements, historyRef, setSelectedElementId.
Apply(r) ==
  /\ elements' = r.elements
  /\ history' = r.history
  /\ selectedElementId' = r.selectedElementId

----------------------------------------------------------------------------
(* Handlers *)

\* A render whose two maps are the ones the render before it left.
render_CarriesMaps ==
  /\ obs' = [obs EXCEPT !.mesh =
               [doc |-> elements, selected |-> selectedElementId,
                runs |-> IF @.doc = elements /\ @.selected = selectedElementId
                           THEN Min(2, @.runs + 1) ELSE 1,
                out |-> connectionPatches(
                          wallShapes([EmptyMesh EXCEPT !.patchMap = obs.mesh.out.patchMap,
                                                       !.outline = obs.mesh.out.outline],
                                     elements, 1, selectedElementId), 1)]]
  /\ UNCHANGED <<elements, history, endpointDragSnapshot, draft, activeWallTool,
                 interactionMode, selectedElementId, orthoMode, pendingOpening,
                 pendingSnap, nextId, handleDrag>>
  /\ UNCHANGED <<renderVars, probe>>

\* One run of LayoutStage's body over the current document and selection.
render ==
  /\ obs' = [obs EXCEPT !.mesh =
               [doc |-> elements, selected |-> selectedElementId,
                runs |-> IF @.doc = elements /\ @.selected = selectedElementId
                           THEN Min(2, @.runs + 1) ELSE 1,
                out |-> WallMesh(elements, selectedElementId)]]
  /\ UNCHANGED <<elements, history, endpointDragSnapshot, draft, activeWallTool,
                 interactionMode, selectedElementId, orthoMode, pendingOpening,
                 pendingSnap, nextId, handleDrag>>
  /\ UNCHANGED <<renderVars, probe>>

\* An undo that restores the newest snapshot and leaves it on the stack.
undoLast_KeepsSnapshot ==
  /\ handleDrag = NoDrag
  /\ IF Len(history) = 0
       THEN UNCHANGED <<elements, selectedElementId>>
       ELSE /\ selectedElementId' = 0
            /\ elements' = history[Len(history)]
  /\ obs' = IF obs.phase = "mixed" THEN obs
            ELSE [obs EXCEPT !.phase = "undo", !.undoRun = @ + 1]
  /\ UNCHANGED <<history, endpointDragSnapshot, draft, activeWallTool, interactionMode,
                 orthoMode, pendingOpening, pendingSnap, nextId, handleDrag>>
  /\ UNCHANGED <<renderVars, probe>>

\* An undo that leaves the selection as it is.
undoLast_KeepsSelection ==
  /\ handleDrag = NoDrag
  /\ IF Len(history) = 0
       THEN UNCHANGED <<elements, history, selectedElementId>>
       ELSE /\ history' = SubSeq(history, 1, Len(history) - 1)
            /\ elements' = history[Len(history)]
            /\ UNCHANGED selectedElementId
  /\ obs' = IF obs.phase = "mixed" THEN obs
            ELSE [obs EXCEPT !.phase = "undo", !.undoRun = @ + 1]
  /\ UNCHANGED <<endpointDragSnapshot, draft, activeWallTool, interactionMode, orthoMode,
                 pendingOpening, pendingSnap, nextId, handleDrag>>
  /\ UNCHANGED <<renderVars, probe>>

undoLast ==
  /\ handleDrag = NoDrag
  /\ IF Len(history) = 0
       THEN UNCHANGED <<elements, history, selectedElementId>>
       ELSE /\ history' = SubSeq(history, 1, Len(history) - 1)
            /\ selectedElementId' = 0
            /\ elements' = history[Len(history)]
  /\ obs' = IF obs.phase = "mixed" THEN obs
            ELSE [obs EXCEPT !.phase = "undo", !.undoRun = @ + 1]
  /\ UNCHANGED <<endpointDragSnapshot, draft, activeWallTool, interactionMode, orthoMode,
                 pendingOpening, pendingSnap, nextId, handleDrag>>
  /\ UNCHANGED <<renderVars, probe>>

\* A delete that takes the openings of a deleted wall with it.
deleteSelected_Cascade ==
  /\ handleDrag = NoDrag
  /\ selectedElementId # 0
  /\ LET produced == IF ~HasId(elements, selectedElementId) THEN Rejected
                      ELSE Produced(SelectSeq(elements,
                             LAMBDA e : /\ e.id # selectedElementId
                                        /\ ~(IsOpening(e)
                                              /\ e.geometry.wallId = selectedElementId)))
         r == applyElementsChange(produced, 0, FALSE)
     IN Apply(r) /\ obs' = ObsChange(r, FALSE)
  /\ UNCHANGED <<endpointDragSnapshot, draft, activeWallTool, interactionMode, orthoMode,
                 pendingOpening, pendingSnap, nextId, handleDrag>>
  /\ UNCHANGED <<renderVars, probe>>

deleteSelected ==
  /\ handleDrag = NoDrag
  /\ selectedElementId # 0
  /\ LET produced == IF ~HasId(elements, selectedElementId) THEN Rejected
                      ELSE Produced(SelectSeq(elements,
                                      LAMBDA e : e.id # selectedElementId))
         r == applyElementsChange(produced, 0, FALSE)
     IN Apply(r) /\ obs' = ObsChange(r, FALSE)
  /\ UNCHANGED <<endpointDragSnapshot, draft, activeWallTool, interactionMode, orthoMode,
                 pendingOpening, pendingSnap, nextId, handleDrag>>
  /\ UNCHANGED <<renderVars, probe>>

clearCanvas ==
  /\ handleDrag = NoDrag
  /\ draft' = NoDraft
  /\ pendingOpening' = NoOpening
  /\ pendingSnap' = NoSnap
  /\ LET r == applyElementsChange(IF Len(elements) = 0 THEN Rejected ELSE Produced(<<>>),
                                  0, FALSE)
     IN Apply(r) /\ obs' = ObsChange(r, FALSE)
  /\ UNCHANGED <<endpointDragSnapshot, activeWallTool, interactionMode, orthoMode,
                 nextId, handleDrag>>
  /\ UNCHANGED <<renderVars, probe>>

\* The wall commit shared by the three finalize functions, followed by setDraft(null).
CommitDraft(points, entries) ==
  /\ LET c == commitWallElements(elements, nextId, entries)
         r == applyElementsChange(IF Len(entries) = 0 THEN Rejected ELSE c.produced,
                                  0, FALSE)
     IN /\ Apply(r)
        /\ obs' = [ObsChange(r, FALSE) EXCEPT
                     !.gesture = [mode |-> draft.mode,
                                  points |-> Len(points),
                                  onePoint |-> \A i \in 1..Len(points) :
                                                 points[i] = points[1],
                                  added |-> Len(r.elements) - Len(elements)]]
        /\ nextId' = IF r.applied THEN nextId + c.drawn ELSE nextId
  /\ draft' = NoDraft

\* A placement that stays pending after its opening is committed.
finalizePendingOpening_StaysPending ==
  LET r == applyElementsChange(
             commitNewOpening(elements, nextId, pendingOpening, pendingSnap), 0, FALSE)
  IN /\ Apply(r)
     /\ obs' = ObsChange(r, FALSE)
     /\ nextId' = IF r.applied THEN nextId + 1 ELSE nextId
     /\ UNCHANGED <<pendingOpening, pendingSnap>>

finalizePendingOpening ==
  LET r == applyElementsChange(
             commitNewOpening(elements, nextId, pendingOpening, pendingSnap), 0, FALSE)
  IN /\ Apply(r)
     /\ obs' = ObsChange(r, FALSE)
     /\ nextId' = IF r.applied THEN nextId + 1 ELSE nextId
     /\ pendingOpening' = IF r.applied THEN NoOpening ELSE pendingOpening
     /\ pendingSnap' = IF r.applied THEN NoSnap ELSE pendingSnap

handleStageMouseDown(point) ==
  /\ handleDrag = NoDrag
  /\ IF pendingOpening # NoOpening
       THEN /\ IF pendingSnap # NoSnap
                 THEN finalizePendingOpening
                 ELSE UNCHANGED <<elements, history, selectedElementId, obs, nextId,
                                  pendingOpening, pendingSnap>>
            /\ UNCHANGED draft
     ELSE IF interactionMode = "select"
       THEN UNCHANGED <<elements, history, selectedElementId, obs, nextId,
                        pendingOpening, pendingSnap, draft>>
     ELSE IF activeWallTool = "polyline"
       THEN /\ draft' =
                 IF draft.mode # "polyline"
                   THEN [mode |-> "polyline",
                         points |-> <<getSnappedPoint(elements, orthoMode, point,
                                                      <<>>, <<>>)>>]
                   ELSE [mode |-> "polyline",
                         points |-> Append(draft.points,
                           getSnappedPoint(elements, orthoMode, point,
                             <<draft.points[Len(draft.points)]>>, <<draft.points[1]>>))]
            /\ UNCHANGED <<elements, history, selectedElementId, obs, nextId,
                           pendingOpening, pendingSnap>>
     ELSE IF activeWallTool = "rectangle"
       THEN IF draft.mode # "rectangle"
              THEN /\ draft' = [mode |-> "rectangle", points |-> <<point>>]
                   /\ UNCHANGED <<elements, history, selectedElementId, obs, nextId,
                                  pendingOpening, pendingSnap>>
              ELSE /\ CommitDraft(<<draft.points[1], point>>,
                                   finalizeRectangle(draft.points[1], point))
                   /\ UNCHANGED <<pendingOpening, pendingSnap>>
     ELSE IF draft.mode # "arc"
       THEN /\ draft' = [mode |-> "arc", points |-> <<point>>]
            /\ UNCHANGED <<elements, history, selectedElementId, obs, nextId,
                           pendingOpening, pendingSnap>>
     ELSE IF Len(draft.points) = 1
       THEN /\ draft' = [mode |-> "arc", points |-> Append(draft.points, point)]
            /\ UNCHANGED <<elements, history, selectedElementId, obs, nextId,
                           pendingOpening, pendingSnap>>
     ELSE /\ CommitDraft(Append(draft.points, point),
                      finalizeArc(Append(draft.points, point)))
          /\ UNCHANGED <<pendingOpening, pendingSnap>>
  /\ UNCHANGED <<endpointDragSnapshot, activeWallTool, interactionMode, orthoMode,
                 handleDrag>>
  /\ UNCHANGED <<renderVars, probe>>

handleDoubleClick ==
  /\ handleDrag = NoDrag
  /\ interactionMode = "draw"
  /\ pendingOpening = NoOpening
  /\ draft.mode = "polyline"
  /\ CommitDraft(draft.points, finalizePolyline(draft.points))
  /\ UNCHANGED <<endpointDragSnapshot, activeWallTool, interactionMode, orthoMode,
                 pendingOpening, pendingSnap, handleDrag>>
  /\ UNCHANGED <<renderVars, probe>>

handleKeyEnter ==
  /\ handleDrag = NoDrag
  /\ draft.mode = "polyline"
  /\ CommitDraft(draft.points, finalizePolyline(draft.points))
  /\ UNCHANGED <<endpointDragSnapshot, activeWallTool, interactionMode, orthoMode,
                 pendingOpening, pendingSnap, handleDrag>>
  /\ UNCHANGED <<renderVars, probe>>

\* An Escape that discards the whole draft however many points it has.
handleKeyEscape_CancelsAll ==
  /\ handleDrag = NoDrag
  /\ IF pendingOpening # NoOpening
       THEN /\ pendingOpening' = NoOpening
            /\ pendingSnap' = NoSnap
            /\ UNCHANGED draft
       ELSE /\ draft' = NoDraft
            /\ pendingSnap' = NoSnap
            /\ UNCHANGED pendingOpening
  /\ obs' = IF draft = NoDraft THEN obs
            ELSE [obs EXCEPT !.escape = [had |-> Len(draft.points),
                                         left |-> Len(draft'.points)]]
  /\ UNCHANGED <<elements, history, endpointDragSnapshot, activeWallTool, interactionMode,
                 selectedElementId, orthoMode, nextId, handleDrag>>
  /\ UNCHANGED <<renderVars, probe>>

handleKeyEscape ==
  /\ handleDrag = NoDrag
  /\ IF pendingOpening # NoOpening
       THEN /\ pendingOpening' = NoOpening
            /\ pendingSnap' = NoSnap
            /\ UNCHANGED draft
     ELSE IF draft.mode = "polyline" /\ Len(draft.points) > 1
       THEN /\ draft' = [mode |-> "polyline",
                         points |-> SubSeq(draft.points, 1, Len(draft.points) - 1)]
            /\ UNCHANGED <<pendingOpening, pendingSnap>>
     ELSE /\ draft' = NoDraft
          /\ pendingSnap' = NoSnap
          /\ UNCHANGED pendingOpening
  /\ obs' = IF draft = NoDraft THEN obs
            ELSE [obs EXCEPT !.escape = [had |-> Len(draft.points),
                                         left |-> Len(draft'.points)]]
  /\ UNCHANGED <<elements, history, endpointDragSnapshot, activeWallTool, interactionMode,
                 selectedElementId, orthoMode, nextId, handleDrag>>
  /\ UNCHANGED <<renderVars, probe>>

handleMouseMove(worldPoint) ==
  /\ handleDrag = NoDrag
  /\ pendingOpening # NoOpening
  /\ pendingSnap' = findSnapPointOnWalls(worldPoint, wallElements(elements))
  /\ UNCHANGED <<elements, history, endpointDragSnapshot, draft, activeWallTool,
                 interactionMode, selectedElementId, orthoMode, pendingOpening, nextId,
                 handleDrag, obs>>
  /\ UNCHANGED <<renderVars, probe>>

\* A tool switch that leaves the draft in place.
selectWallTool_KeepsDraft(tool) ==
  /\ handleDrag = NoDrag
  /\ ~(tool = activeWallTool /\ interactionMode = "draw")
  /\ pendingOpening' = NoOpening
  /\ pendingSnap' = NoSnap
  /\ interactionMode' = "draw"
  /\ activeWallTool' = tool
  /\ UNCHANGED <<elements, history, endpointDragSnapshot, selectedElementId, orthoMode,
                 nextId, handleDrag, obs, draft>>
  /\ UNCHANGED <<renderVars, probe>>

selectWallTool(tool) ==
  /\ handleDrag = NoDrag
  /\ ~(tool = activeWallTool /\ interactionMode = "draw")
  /\ draft' = NoDraft
  /\ pendingOpening' = NoOpening
  /\ pendingSnap' = NoSnap
  /\ interactionMode' = "draw"
  /\ activeWallTool' = tool
  /\ UNCHANGED <<elements, history, endpointDragSnapshot, selectedElementId, orthoMode,
                 nextId, handleDrag, obs>>
  /\ UNCHANGED <<renderVars, probe>>

\* An Add door / Add window button that leaves the draft in progress.
addOpeningElement_KeepsDraft(type, desiredCenter) ==
  /\ handleDrag = NoDrag
  /\ pendingOpening = NoOpening
  /\ interactionMode' = "draw"
  /\ IF Len(wallElements(elements)) = 0
       THEN /\ pendingOpening' = NoOpening
            /\ pendingSnap' = NoSnap
       ELSE /\ pendingOpening' =
                 [type |-> type, width |-> palette(type).width,
                  height |-> palette(type).height, label |-> palette(type).label,
                  infoHeightMm |-> pxToMm(palette(type).height)]
            /\ pendingSnap' = findSnapPointOnWalls(desiredCenter, wallElements(elements))
  /\ UNCHANGED <<elements, history, endpointDragSnapshot, activeWallTool, draft,
                 selectedElementId, orthoMode, nextId, handleDrag, obs>>
  /\ UNCHANGED <<renderVars, probe>>

\* The Add door / Add window button: setInteractionMode('draw'), addOpeningElement(type).
addOpeningElement(type, desiredCenter) ==
  /\ handleDrag = NoDrag
  /\ pendingOpening = NoOpening
  /\ interactionMode' = "draw"
  /\ draft' = NoDraft
  /\ IF Len(wallElements(elements)) = 0
       THEN /\ pendingOpening' = NoOpening
            /\ pendingSnap' = NoSnap
       ELSE /\ pendingOpening' =
                 [type |-> type, width |-> palette(type).width,
                  height |-> palette(type).height, label |-> palette(type).label,
                  infoHeightMm |-> pxToMm(palette(type).height)]
            /\ pendingSnap' = findSnapPointOnWalls(desiredCenter, wallElements(elements))
  /\ UNCHANGED <<elements, history, endpointDragSnapshot, activeWallTool,
                 selectedElementId, orthoMode, nextId, handleDrag, obs>>
  /\ UNCHANGED <<renderVars, probe>>

\* The width field of the placement panel.
setPendingOpeningWidth(valueMm) ==
  /\ handleDrag = NoDrag
  /\ pendingOpening # NoOpening
  /\ pendingOpening' = [pendingOpening EXCEPT !.width = Max(20, valueMm) \div 10]
  /\ UNCHANGED <<elements, history, endpointDragSnapshot, draft, activeWallTool,
                 interactionMode, selectedElementId, orthoMode, pendingSnap, nextId,
                 handleDrag, obs>>
  /\ UNCHANGED <<renderVars, probe>>

\* The Draw mode button.
drawModeButton ==
  /\ handleDrag = NoDrag
  /\ pendingOpening' = NoOpening
  /\ pendingSnap' = NoSnap
  /\ interactionMode' = "draw"
  /\ UNCHANGED <<elements, history, endpointDragSnapshot, draft, activeWallTool,
                 selectedElementId, orthoMode, nextId, handleDrag, obs>>
  /\ UNCHANGED <<renderVars, probe>>

\* The Select mode button.
selectModeButton ==
  /\ handleDrag = NoDrag
  /\ draft' = NoDraft
  /\ pendingOpening' = NoOpening
  /\ pendingSnap' = NoSnap
  /\ interactionMode' = "select"
  /\ UNCHANGED <<elements, history, endpointDragSnapshot, activeWallTool,
                 selectedElementId, orthoMode, nextId, handleDrag, obs>>
  /\ UNCHANGED <<renderVars, probe>>

toggleOrtho ==
  /\ handleDrag = NoDrag
  /\ orthoMode' = ~orthoMode
  /\ UNCHANGED <<elements, history, endpointDragSnapshot, draft, activeWallTool,
                 interactionMode, selectedElementId, pendingOpening, pendingSnap, nextId,
                 handleDrag, obs>>
  /\ UNCHANGED <<renderVars, probe>>

\* An element has a shape to press on: an opening always, a wall when a sub-path is left.
HasShape(doc, id) ==
  /\ HasId(doc, id)
  /\ LET element == ElementById(doc, id)
     IN IsOpening(element) \/ Len(wallSegments(doc, element)) > 0

handleShapeSelect(elementId) ==
  /\ handleDrag = NoDrag
  /\ interactionMode = "select"
  /\ HasShape(elements, elementId)
  /\ selectedElementId' = elementId
  /\ UNCHANGED <<elements, history, endpointDragSnapshot, draft, activeWallTool,
                 interactionMode, orthoMode, pendingOpening, pendingSnap, nextId,
                 handleDrag, obs>>
  /\ UNCHANGED <<renderVars, probe>>

\* A row of the element list.
elementListClick(elementId) ==
  /\ handleDrag = NoDrag
  /\ HasId(elements, elementId)
  /\ draft' = NoDraft
  /\ pendingSnap' = NoSnap
  /\ interactionMode' = "select"
  /\ selectedElementId' = elementId
  /\ UNCHANGED <<elements, history, endpointDragSnapshot, activeWallTool, orthoMode,
                 pendingOpening, nextId, handleDrag, obs>>
  /\ UNCHANGED <<renderVars, probe>>

\* handleStageMouseUp on the empty stage, without a marquee drawn.
handleStageMouseUp ==
  /\ handleDrag = NoDrag
  /\ interactionMode = "select"
  /\ selectedElementId' = 0
  /\ UNCHANGED <<elements, history, endpointDragSnapshot, draft, activeWallTool,
                 interactionMode, orthoMode, pendingOpening, pendingSnap, nextId,
                 handleDrag, obs>>
  /\ UNCHANGED <<renderVars, probe>>

\* onDragEnd of a wall shape; its onDragStart has selected the wall.
wallDragEnd(wallId, dx, dy) ==
  /\ handleDrag = NoDrag
  /\ interactionMode = "select"
  /\ selectedElementId = wallId
  /\ HasShape(elements, wallId)
  /\ IsWall(ElementById(elements, wallId))
  /\ LET r == applyElementsChange(applyWallTranslation(elements, wallId, dx, dy),
                                  wallId, FALSE)
     IN Apply(r) /\ obs' = ObsChange(r, FALSE)
  /\ UNCHANGED <<endpointDragSnapshot, draft, activeWallTool, interactionMode, orthoMode,
                 pendingOpening, pendingSnap, nextId, handleDrag>>
  /\ UNCHANGED <<renderVars, probe>>

\* onDragEnd of a door or window shape (handleOpeningDrag); its onDragStart has
\* selected the opening.
handleOpeningDrag(elementId, position) ==
  /\ handleDrag = NoDrag
  /\ interactionMode = "select"
  /\ selectedElementId = elementId
  /\ HasId(elements, elementId)
  /\ IsOpening(ElementById(elements, elementId))
  /\ \E snap \in {findSnapPointOnWalls(position, wallElements(elements))} :
       \E existing \in {ElementById(elements, elementId)} :
         LET produced == IF snap = NoSnap THEN Rejected
                         ELSE commitExistingOpening(elements, snap, existing)
             r == applyElementsChange(produced, 0, FALSE)
         IN Apply(r) /\ obs' = ObsChange(r, FALSE)
  /\ UNCHANGED <<endpointDragSnapshot, draft, activeWallTool, interactionMode, orthoMode,
                 pendingOpening, pendingSnap, nextId, handleDrag>>
  /\ UNCHANGED <<renderVars, probe>>

\* The endpoint handles are drawn for a selected polyline wall in select mode.
HasEndpointHandles ==
  /\ interactionMode = "select"
  /\ HasId(elements, selectedElementId)
  /\ LET selectedElement == ElementById(elements, selectedElementId)
     IN /\ IsWall(selectedElement)
        /\ selectedElement.geometry.kind = "polyline"
        /\ Len(getWallPathPoints(selectedElement)) >= 2

\* captureEndpointDragSnapshot
handleEndpointHandleDragStart(endpointIndex) ==
  /\ handleDrag = NoDrag
  /\ HasEndpointHandles
  /\ handleDrag' = [wallId |-> selectedElementId, endpointIndex |-> endpointIndex]
  /\ history' = IF endpointDragSnapshot THEN history ELSE PushSnapshot(history, elements)
  /\ endpointDragSnapshot' = TRUE
  /\ obs' = [obs EXCEPT
               !.dragPushes = IF endpointDragSnapshot THEN @ ELSE @ + 1,
               !.phase = IF @ = "edit" \/ endpointDragSnapshot THEN @ ELSE "mixed",
               !.undoRun = IF endpointDragSnapshot THEN @ ELSE 0,
               !.dragBase = elements,
               !.dragBaseLen = Len(history),
               !.dragChanged = FALSE]
  /\ UNCHANGED <<elements, draft, activeWallTool, interactionMode, selectedElementId,
                 orthoMode, pendingOpening, pendingSnap, nextId>>
  /\ UNCHANGED <<renderVars, probe>>

handleEndpointHandleDragMove(point) ==
  /\ handleDrag # NoDrag
  /\ LET r == applyElementsChange(
                applyWallEndpointUpdate(elements, orthoMode, handleDrag.wallId,
                                        handleDrag.endpointIndex, point),
                handleDrag.wallId, TRUE)
     IN /\ Apply(r)
        /\ obs' = [obs EXCEPT !.dragChanged = @ \/ r.applied]
  /\ UNCHANGED <<endpointDragSnapshot, draft, activeWallTool, interactionMode, orthoMode,
                 pendingOpening, pendingSnap, nextId, handleDrag>>
  /\ UNCHANGED <<renderVars, probe>>

\* applyWallEndpointUpdate with transient false, then releaseEndpointDragSnapshot.
handleEndpointHandleDragEnd(point) ==
  /\ handleDrag # NoDrag
  /\ LET r == applyElementsChange(
                applyWallEndpointUpdate(elements, orthoMode, handleDrag.wallId,
                                        handleDrag.endpointIndex, point),
                handleDrag.wallId, FALSE)
     IN /\ Apply(r)
        /\ obs' = [ObsChange(r, FALSE) EXCEPT !.dragBase = <<>>, !.dragBaseLen = 0,
                                              !.dragChanged = FALSE]
  /\ endpointDragSnapshot' = FALSE
  /\ handleDrag' = NoDrag
  /\ UNCHANGED <<draft, activeWallTool, interactionMode, orthoMode, pendingOpening,
                 pendingSnap, nextId>>
  /\ UNCHANGED <<renderVars, probe>>

\* The properties panel shows the selected element's fields when nothing is pending.
PanelShows(type) ==
  /\ handleDrag = NoDrag
  /\ pendingOpening = NoOpening
  /\ HasId(elements, selectedElementId)
  /\ IF type = "wall" THEN IsWall(ElementById(elements, selectedElementId))
     ELSE ~IsWall(ElementById(elements, selectedElementId))

UpdateSelected(updated) ==
  /\ LET r == applyElementsChange(
                updateSelectedElement(elements, selectedElementId, updated),
                selectedElementId, FALSE)
     IN Apply(r) /\ obs' = ObsChange(r, FALSE)
  /\ UNCHANGED <<endpointDragSnapshot, draft, activeWallTool, interactionMode, orthoMode,
                 pendingOpening, pendingSnap, nextId, handleDrag>>
  /\ UNCHANGED <<renderVars, probe>>

handleWallThicknessUpdate(value) ==
  /\ PanelShows("wall")
  /\ UpdateSelected([ElementById(elements, selectedElementId) EXCEPT
                       !.thicknessMm = Min(1000, Max(10, value))])

handleWallColorUpdate(value) ==
  /\ PanelShows("wall")
  /\ UpdateSelected([ElementById(elements, selectedElementId) EXCEPT !.fill = value])

handleWallMaterialUpdate(value) ==
  /\ PanelShows("wall")
  /\ UpdateSelected([ElementById(elements, selectedElementId) EXCEPT
                       !.materialName = value])

handleOpeningDimensionUpdate(dimension, valueMm) ==
  /\ PanelShows("opening")
  /\ LET current == ElementById(elements, selectedElementId)
     IN IF ~IsOpening(current)
          THEN UNCHANGED vars
          ELSE UpdateSelected(
                 IF dimension = "width" THEN WithOpeningWidth(current, valueMm)
                 ELSE [current EXCEPT !.geometry.heightMm = Max(20, valueMm)])
  /\ UNCHANGED <<renderVars, probe>>

----------------------------------------------------------------------------
(* Helpers evaluated on inputs of their own *)

\* One evaluation of subtractIntervalsFromPath, as wallShapes makes for every wall.
subtractProbe(points, intervals) ==
  /\ probe' = [of |-> "subtractIntervalsFromPath", points |-> points,
               intervals |-> intervals,
               segments |-> subtractIntervalsFromPath(points, intervals)]
  /\ UNCHANGED <<elements, history, endpointDragSnapshot, draft, activeWallTool,
                 interactionMode, selectedElementId, orthoMode, pendingOpening,
                 pendingSnap, nextId, handleDrag, renderVars, obs>>

\* One evaluation of getSnappedPoint on the current document and ortho mode;
\* anchor is a one-element sequence, or empty when no anchor is given.
snapProbe(point, anchor, extraPoints) ==
  /\ probe' = [of |-> "getSnappedPoint", point |-> point, anchor |-> anchor,
               extraPoints |-> extraPoints, ortho |-> orthoMode,
               result |-> getSnappedPoint(elements, orthoMode, point, anchor, extraPoints)]
  /\ UNCHANGED <<elements, history, endpointDragSnapshot, draft, activeWallTool,
                 interactionMode, selectedElementId, orthoMode, pendingOpening,
                 pendingSnap, nextId, handleDrag, renderVars, obs>>

----------------------------------------------------------------------------
(* Render requests *)

RenderJobLimit == 5

\* The image the service returns for a request, named after the request.
ImageOf(jobId) == jobId

\* A list that keeps every entry it is given.
addRenderJob_Unbounded(jobs, job) == <<job>> \o jobs

\* setRenderJobs((prev) => [job, ...prev].slice(0, 5))
addRenderJob(jobs, job) ==
  SubSeq(<<job>> \o jobs, 1, Min(RenderJobLimit, Len(jobs) + 1))

\* { ...job, ...patch }
Patched(job, patch) ==
  [f \in DOMAIN job |-> IF f \in DOMAIN patch THEN patch[f] ELSE job[f]]

\* An update that patches the newest entry whatever its id.
updateRenderJob_Newest(jobs, jobId, patch) ==
  [k \in 1..Len(jobs) |-> IF k = 1 THEN Patched(jobs[k], patch) ELSE jobs[k]]

\* setRenderJobs((prev) => prev.map((job) => (job.id === jobId ? {...job, ...patch} : job)))
updateRenderJob(jobs, jobId, patch) ==
  [k \in 1..Len(jobs) |-> IF jobs[k].id = jobId THEN Patched(jobs[k], patch) ELSE jobs[k]]

layoutState ==
  <<elements, history, endpointDragSnapshot, draft, activeWallTool, interactionMode,
    selectedElementId, orthoMode, pendingOpening, pendingSnap, handleDrag>>

layoutVars == <<layoutState, obs>>

ObsReturn(jobId) ==
  [obs EXCEPT !.lateReturns =
     IF \E k \in 1..Len(renderJobs) : renderJobs[k].id = jobId
       THEN @ ELSE @ \cup {jobId}]

\* RenderStage.onSubmit, through the submit button, which is disabled while
\* the stage's mutation is pending.  ready: the api key, the collage and the
\* layout preview are all there; without one of them only the helper message
\* changes.
onSubmit(prompt, ready) ==
  /\ renderMutation \notin renderRequests
  /\ IF ready
       THEN LET jobId == generateId(nextId)
            IN /\ renderJobs' = addRenderJob(renderJobs,
                                   [id |-> jobId, prompt |-> prompt,
                                    status |-> "processing", imageUrl |-> 0])
               /\ renderRequests' = renderRequests \cup {jobId}
               /\ renderMutation' = jobId
               /\ nextId' = nextId + 1
       ELSE UNCHANGED <<renderVars, nextId>>
  /\ UNCHANGED <<layoutVars, probe>>

\* renderMutation.onSuccess: the request of job jobId returns its image.
renderSuccess(jobId) ==
  /\ jobId \in renderRequests
  /\ renderJobs' = updateRenderJob(renderJobs, jobId,
                                  [status |-> "complete", imageUrl |-> ImageOf(jobId)])
  /\ renderRequests' = renderRequests \ {jobId}
  /\ obs' = ObsReturn(jobId)
  /\ UNCHANGED <<renderMutation, nextId, layoutState, probe>>

\* renderMutation.onError: the request of job jobId fails.
renderError(jobId) ==
  /\ jobId \in renderRequests
  /\ renderJobs' = updateRenderJob(renderJobs, jobId, [status |-> "idle"])
  /\ renderRequests' = renderRequests \ {jobId}
  /\ obs' = ObsReturn(jobId)
  /\ UNCHANGED <<renderMutation, nextId, layoutState, probe>>

\* The user leaves step 2 and comes back: the render stage is mounted anew, its
\* mutation follows no request, and the requests in flight go on.
reopenRenderStage ==
  /\ renderMutation' = 0
  /\ UNCHANGED <<renderJobs, renderRequests, nextId, layoutVars, probe>>

\* The user leaves step 1 for the Render or Material step and comes back: the
\* layout stage is mounted anew with the state it is constructed with, over the
\* elements the page has kept.
reopenLayoutStage ==
  /\ history' = <<>>
  /\ endpointDragSnapshot' = FALSE
  /\ draft' = NoDraft
  /\ activeWallTool' = "polyline"
  /\ interactionMode' = "draw"
  /\ selectedElementId' = 0
  /\ orthoMode' = TRUE
  /\ pendingOpening' = NoOpening
  /\ pendingSnap' = NoSnap
  /\ handleDrag' = NoDrag
  /\ UNCHANGED <<elements, nextId, obs, renderVars, probe>>

----------------------------------------------------------------------------
(* A drawing session: the three wall tools over a small set of pointer
   positions, until MaxPushes snapshots have been pushed *)

MaxPushes == 1

P0 == Pt(0, 0)
P1 == Pt(480, 0)
P2 == Pt(480, 360)

ClickPoints == {P0, P1, P2}

\* A draft is given at most as many points as there are positions to click.
MaxDraftPoints == Cardinality(ClickPoints)

Pushes == obs.commits + obs.dragPushes
MayPush == Pushes < MaxPushes
MayDraw == MayPush /\ Len(draft.points) < MaxDraftPoints
Ids == 1..(nextId - 1)

Next ==
  \/ (MayDraw /\ \E p \in ClickPoints : handleStageMouseDown(p))
  \/ (MayPush /\ handleDoubleClick)
  \/ (MayPush /\ handleKeyEnter)
  \/ ((Len(history) > 0 \/ obs.undoRun < obs.commits) /\ undoLast)
  \/ \E tool \in {"polyline", "rectangle", "arc"} : selectWallTool(tool)
  \/ drawModeButton
  \/ selectModeButton
  \/ toggleOrtho
  \/ \E id \in Ids : handleShapeSelect(id)
  \/ \E id \in Ids : elementListClick(id)
  \/ handleStageMouseUp

Spec == Init /\ [][Next]_vars

----------------------------------------------------------------------------
(* A long editing session on one wall: the wall is drawn, selected and then
   edited DeepPushes times, the kinds of edit taking turns until DeepFree
   snapshots have been pushed and every kind being open after that; undo may
   start at any moment, and only undos follow it. *)

DeepPushes == 52
DeepFree == 49

Editing == obs.phase = "edit" /\ Pushes < DeepPushes
Turn(j) == Pushes >= DeepFree \/ Pushes % 3 = j

NextDeep ==
  \/ (Editing /\ Pushes = 0 /\ Len(draft.points) < 2
        /\ handleStageMouseDown(IF Len(draft.points) = 0 THEN P0 ELSE P1))
  \/ (Editing /\ Pushes = 0 /\ Len(draft.points) = 2 /\ handleKeyEnter)
  \/ (Editing /\ Pushes = 1 /\ selectModeButton)
  \/ (Editing /\ selectedElementId = 0 /\ \E id \in Ids : handleShapeSelect(id))
  \/ (Editing /\ Turn(1) /\ handleWallThicknessUpdate(10 * Pushes))
  \/ (Editing /\ Turn(2) /\ \E id \in Ids : wallDragEnd(id, 10, 0))
  \/ (Editing /\ Turn(0) /\ handleWallColorUpdate(Pushes))
  \/ (Editing /\ Pushes >= DeepFree /\ deleteSelected)
  \/ (Editing /\ Pushes >= DeepFree /\ elements # <<>> /\ clearCanvas)
  \/ (Editing /\ Pushes >= DeepFree /\ handleEndpointHandleDragStart(1))
  \/ \E p \in {P1, P2} : handleEndpointHandleDragMove(p)
  \/ \E p \in {P1, P2} : handleEndpointHandleDragEnd(p)
  \/ ((Len(history) > 0 \/ obs.undoRun < obs.commits) /\ undoLast)

SpecDeep == Init /\ [][NextDeep]_vars

----------------------------------------------------------------------------
(* An endpoint drag session: the polyline P0, P1, P2 is drawn, one of its walls
   is selected, and its endpoints are dragged, MaxDrags times at most. *)

MaxDrags == 1

Corner == <<P0, P1, P2>>
DragPoints == {P2, Pt(0, 360), Pt(240, 0)}

NextDrag ==
  \/ (Pushes = 0 /\ Len(draft.points) < Len(Corner)
        /\ handleStageMouseDown(Corner[Len(draft.points) + 1]))
  \/ (Pushes = 0 /\ Len(draft.points) >= 2 /\ handleKeyEnter)
  \/ (Pushes > 0 /\ selectModeButton)
  \/ \E id \in Ids : handleShapeSelect(id)
  \/ (obs.dragPushes < MaxDrags /\ \E k \in {0, 1} : handleEndpointHandleDragStart(k))
  \/ \E p \in DragPoints : handleEndpointHandleDragMove(p)
  \/ \E p \in DragPoints : handleEndpointHandleDragEnd(p)
  \/ (Len(history) > 0 /\ undoLast)

SpecDrag == Init /\ [][NextDrag]_vars

----------------------------------------------------------------------------
(* A session with doors and windows: the polyline P0, P1, P2 is drawn, then
   openings are placed on its two walls, moved, resized and deleted, walls are
   moved, reshaped and deleted and changes undone, until MaxOpeningPushes
   snapshots have been pushed. *)

MaxOpeningPushes == 3

StageCenter == Pt(480, 270)
PointerPoints == {Pt(0, 10), Pt(60, 10), Pt(470, 180), Pt(240, 200)}
WidthsMm == {2400, 4800}
PendingWidthsMm == {2400}
WallEnd == Pt(240, 0)

MayEdit == Pushes > 0 /\ Pushes < MaxOpeningPushes

NextOpenings ==
  \/ (Pushes = 0 /\ Len(draft.points) < Len(Corner)
        /\ handleStageMouseDown(Corner[Len(draft.points) + 1]))
  \/ (Pushes = 0 /\ Len(draft.points) = Len(Corner) /\ handleKeyEnter)
  \/ (MayEdit /\ \E type \in {"door", "window"} : addOpeningElement(type, StageCenter))
  \/ \E p \in PointerPoints : handleMouseMove(p)
  \/ (pendingOpening # NoOpening /\ \E valueMm \in PendingWidthsMm : setPendingOpeningWidth(valueMm))
  \/ (pendingOpening # NoOpening /\ handleStageMouseDown(P0))
  \/ (pendingOpening # NoOpening /\ handleKeyEscape)
  \/ (Pushes > 0 /\ selectModeButton)
  \/ \E id \in Ids : handleShapeSelect(id)
  \/ (MayEdit /\ \E id \in Ids, p \in PointerPoints : handleOpeningDrag(id, p))
  \/ (MayEdit /\ \E valueMm \in WidthsMm : handleOpeningDimensionUpdate("width", valueMm))
  \/ (MayEdit /\ handleOpeningDimensionUpdate("height", 2000))
  \/ (MayEdit /\ deleteSelected)
  \/ (MayEdit /\ \E id \in Ids : wallDragEnd(id, 0, 20))
  \/ (MayEdit /\ handleEndpointHandleDragStart(1))
  \/ handleEndpointHandleDragMove(WallEnd)
  \/ handleEndpointHandleDragEnd(WallEnd)
  \/ (Len(history) > 0 /\ undoLast)

SpecOpenings == Init /\ [][NextOpenings]_vars

----------------------------------------------------------------------------
(* Drawing gestures on the empty document: clicks at the click points with
   each of the three tools, Escape and tool switches while a draft is in
   progress, commits by double click and Enter, and undo, which empties the
   document for the next gesture, until MaxGestures gestures have been
   committed. *)

MaxGestures == 1

MayClick ==
  elements = <<>> /\ obs.commits < MaxGestures /\ Len(draft.points) < MaxDraftPoints

NextDraft ==
  \/ (MayClick /\ \E p \in ClickPoints : handleStageMouseDown(p))
  \/ (draft # NoDraft /\ handleDoubleClick)
  \/ (draft # NoDraft /\ handleKeyEnter)
  \/ (draft # NoDraft /\ handleKeyEscape)
  \/ (draft # NoDraft /\ \E tool \in {"polyline", "rectangle", "arc"} : selectWallTool(tool))
  \/ (Len(history) > 0 /\ undoLast)

SpecDraft == Init /\ [][NextDraft]_vars

----------------------------------------------------------------------------
(* Walls that meet: polylines are drawn between the mesh points, in ortho
   mode, until the document holds MaxMeshWalls walls, a wall is selected, and
   the walls are rendered at any moment. *)

MaxMeshWalls == 3

MeshPoints == {Pt(0, 0), Pt(200, 0), Pt(200, 200)}

MayExtend == Len(elements) + Len(draft.points) <= MaxMeshWalls

NextMesh ==
  \/ (MayExtend /\ interactionMode = "draw" /\ \E p \in MeshPoints : handleStageMouseDown(p))
  \/ (Len(draft.points) > 1 /\ handleKeyEnter)
  \/ (Len(elements) = MaxMeshWalls /\ selectModeButton)
  \/ handleShapeSelect(1)
  \/ render

SpecMesh == Init /\ [][NextMesh]_vars

----------------------------------------------------------------------------
(* A room: the rectangle tool draws the wall loop from RoomFrom to RoomTo, then
   doors and windows are placed with the pointer at the pointer stops and
   dragged to the drag stops, until MaxRoomPushes snapshots have been pushed.
   The probe points, at which the properties evaluate the snap, lie at
   distances 39, 40 and 41 of the walls, at the corners and in the middle of
   the room. *)

MaxRoomPushes == 3

RoomFrom == Pt(0, 0)
RoomTo == Pt(400, 300)
SouthMid == Pt(200, 300)
ProbePoints ==
  { Pt(200, 300), Pt(200, 261), Pt(200, 260), Pt(200, 259),
    Pt(200, 339), Pt(200, 340), Pt(200, 341),
    Pt(30, 280), Pt(20, 270), Pt(25, 275),
    Pt(424, 332), Pt(425, 332), Pt(439, 150), Pt(441, 150),
    Pt(100, 39), Pt(200, 150) }

PointerStops == {Pt(200, 300), Pt(200, 261), Pt(200, 259), Pt(20, 270), Pt(25, 275)}
DragStops == {Pt(20, 270), Pt(439, 150), Pt(200, 150)}

MayFurnish == Pushes > 0 /\ Pushes < MaxRoomPushes

NextRoom ==
  \/ (elements = <<>> /\ selectWallTool("rectangle"))
  \/ (Pushes = 0 /\ activeWallTool = "rectangle" /\ draft = NoDraft
        /\ handleStageMouseDown(RoomFrom))
  \/ (Pushes = 0 /\ draft.mode = "rectangle" /\ handleStageMouseDown(RoomTo))
  \/ (MayFurnish /\ \E type \in {"door", "window"} : addOpeningElement(type, StageCenter))
  \/ \E p \in PointerStops : handleMouseMove(p)
  \/ (pendingOpening # NoOpening /\ handleStageMouseDown(RoomFrom))
  \/ (pendingOpening # NoOpening /\ handleKeyEscape)
  \/ (Pushes > 0 /\ selectModeButton)
  \/ \E id \in Ids : handleShapeSelect(id)
  \/ (MayFurnish /\ \E id \in Ids, p \in DragStops : handleOpeningDrag(id, p))
  \/ (Len(history) > 0 /\ undoLast)

SpecRoom == Init /\ [][NextRoom]_vars

----------------------------------------------------------------------------
(* Walls that nearly meet: the polyline tool draws the wall from JoinFrom to
   JoinTo, the rectangle tool draws a loop whose first corner lies NearGap
   units beyond JoinTo, then a wall is selected and its endpoints are dragged to
   the join stops, MaxJoinDrags times at most; the walls are rendered at any
   moment before the first drag, while they all are parallel to an axis. *)

MaxJoinDrags == 1

NearGap == WALL_CONNECTION_TOLERANCE - 2
JoinFrom == Pt(0, 0)
JoinTo == Pt(200, 0)
LoopFrom == Pt(JoinTo.x + NearGap, 0)
LoopTo == Pt(400, 200)
JoinStops == {Pt(100, 0), Pt(5, 0), Pt(212, 3)}

NextJoin ==
  \/ (elements = <<>> /\ Len(draft.points) < 2
        /\ handleStageMouseDown(IF draft = NoDraft THEN JoinFrom ELSE JoinTo))
  \/ (elements = <<>> /\ Len(draft.points) = 2 /\ handleKeyEnter)
  \/ (Len(elements) = 1 /\ draft = NoDraft /\ selectWallTool("rectangle"))
  \/ (Len(elements) = 1 /\ activeWallTool = "rectangle"
        /\ handleStageMouseDown(IF draft = NoDraft THEN LoopFrom ELSE LoopTo))
  \/ (Len(elements) > 1 /\ selectModeButton)
  \/ \E id \in {1, 2} : handleShapeSelect(id)
  \/ (obs.dragPushes < MaxJoinDrags /\ \E k \in {0, 1} : handleEndpointHandleDragStart(k))
  \/ \E p \in JoinStops : handleEndpointHandleDragMove(p)
  \/ \E p \in JoinStops : handleEndpointHandleDragEnd(p)
  \/ (obs.dragPushes = 0 /\ render)

SpecJoin == Init /\ [][NextJoin]_vars

----------------------------------------------------------------------------
(* Cutting paths: subtractIntervalsFromPath is evaluated once, on one of the
   cut paths (straight, bent, with a repeated point, of length zero) and a list
   of at most MaxIntervals intervals between the cut marks, in any order,
   overlapping, reversed, or reaching outside the path. *)

MaxIntervals == 2

CutPaths ==
  { <<Pt(0, 0), Pt(12, 0)>>,
    <<Pt(0, 0), Pt(6, 0), Pt(6, 6)>>,
    <<Pt(0, 0), Pt(0, 0), Pt(8, 0), Pt(8, 4)>>,
    <<Pt(3, 3), Pt(3, 3)>> }
CutMarks == {0 - 2, 3, 9, 14}
CutIntervals == [start : CutMarks, end : CutMarks]
IntervalLists == UNION {[1..n -> CutIntervals] : n \in 0..MaxIntervals}

NextCut ==
  \E points \in CutPaths, intervals \in IntervalLists :
    probe = NoProbe /\ subtractProbe(points, intervals)

SpecCut == Init /\ [][NextCut]_vars

----------------------------------------------------------------------------
(* Edits in place: the polyline P0, P1, P2 is drawn and a door is placed on it;
   then walls and the door are selected, moved, reshaped and restyled until
   MaxEdits further snapshots have been pushed. The thickness and width fields
   are also given the value zero. *)

MaxEdits == 2

EditPointers == {Pt(60, 10), Pt(470, 180)}
EditWidthsMm == {2400, 0}
EditHeightsMm == {2000}
EditThicknessesMm == {300, 0}
EditColor == "#22c55e"
EditMaterial == "Brick"

Built == Pushes >= 2
MayRestyle == Built /\ Pushes < 2 + MaxEdits

NextEdit ==
  \/ (Pushes = 0 /\ Len(draft.points) < Len(Corner)
        /\ handleStageMouseDown(Corner[Len(draft.points) + 1]))
  \/ (Pushes = 0 /\ Len(draft.points) = Len(Corner) /\ handleKeyEnter)
  \/ (Pushes = 1 /\ pendingOpening = NoOpening /\ addOpeningElement("door", StageCenter))
  \/ (pendingOpening # NoOpening /\ \E p \in EditPointers : handleMouseMove(p))
  \/ (pendingOpening # NoOpening /\ pendingSnap # NoSnap /\ handleStageMouseDown(P0))
  \/ (Built /\ selectModeButton)
  \/ (Built /\ \E id \in Ids : handleShapeSelect(id))
  \/ (MayRestyle /\ \E id \in Ids : wallDragEnd(id, 0, 20))
  \/ (MayRestyle /\ handleEndpointHandleDragStart(1))
  \/ handleEndpointHandleDragMove(WallEnd)
  \/ handleEndpointHandleDragEnd(WallEnd)
  \/ (MayRestyle /\ \E id \in Ids, p \in EditPointers : handleOpeningDrag(id, p))
  \/ (MayRestyle /\ \E valueMm \in EditThicknessesMm : handleWallThicknessUpdate(valueMm))
  \/ (MayRestyle /\ handleWallColorUpdate(EditColor))
  \/ (MayRestyle /\ handleWallMaterialUpdate(EditMaterial))
  \/ (MayRestyle /\ \E valueMm \in EditWidthsMm : handleOpeningDimensionUpdate("width", valueMm))
  \/ (MayRestyle /\ \E valueMm \in EditHeightsMm : handleOpeningDimensionUpdate("height", valueMm))

SpecEdit == Init /\ [][NextEdit]_vars

----------------------------------------------------------------------------
(* Creations, deletions and undos: polylines are drawn along P0, P1, P2, walls
   are selected and deleted, changes are undone, and the user leaves the
   Layout step and comes back, until MaxSessionPushes snapshots have been
   pushed. *)

MaxSessionPushes == 3

MayGrow == obs.commits < MaxSessionPushes

NextSession ==
  \/ (MayGrow /\ Len(draft.points) < Len(Corner)
        /\ handleStageMouseDown(Corner[Len(draft.points) + 1]))
  \/ (MayGrow /\ Len(draft.points) > 1 /\ handleKeyEnter)
  \/ (elements # <<>> /\ draft = NoDraft /\ selectModeButton)
  \/ (interactionMode = "select" /\ drawModeButton)
  \/ \E id \in Ids : handleShapeSelect(id)
  \/ (MayGrow /\ deleteSelected)
  \/ (Len(history) > 0 /\ undoLast)
  \/ (elements # <<>> /\ reopenLayoutStage)

SpecSession == Init /\ [][NextSession]_vars

----------------------------------------------------------------------------
(* Drafts and placements: walls are drawn from P0 to P2 with the polyline and
   the rectangle tool, and at any moment, a draft in progress or not, a door or
   a window is picked for placement, the pointer moves, the stage is clicked,
   Escape is pressed, a tool or a mode is chosen, or a change is undone, until
   MaxModePushes snapshots have been pushed. *)

MaxModePushes == 2

MayCommit == obs.commits < MaxModePushes

NextModes ==
  \/ (MayCommit /\ Len(draft.points) < 2
        /\ handleStageMouseDown(IF draft = NoDraft THEN P0 ELSE P2))
  \/ (MayCommit /\ handleKeyEnter)
  \/ \E type \in {"door", "window"} : addOpeningElement(type, StageCenter)
  \/ \E p \in EditPointers : handleMouseMove(p)
  \/ handleKeyEscape
  \/ \E tool \in {"polyline", "rectangle"} : selectWallTool(tool)
  \/ selectModeButton
  \/ (Len(history) > 0 /\ undoLast)

SpecModes == Init /\ [][NextModes]_vars

----------------------------------------------------------------------------
(* Selections: polylines are drawn along P0, P1, P2; walls are selected on the
   stage and in the element list, moved, reshaped by their end handle,
   restyled and deleted, the canvas is cleared and changes are undone, until
   MaxSelectPushes snapshots have been pushed. *)

MaxSelectPushes == 3

MayAlter == Pushes < MaxSelectPushes

NextSelect ==
  \/ (MayAlter /\ Len(draft.points) < Len(Corner)
        /\ handleStageMouseDown(Corner[Len(draft.points) + 1]))
  \/ (MayAlter /\ Len(draft.points) > 1 /\ handleKeyEnter)
  \/ (elements # <<>> /\ draft = NoDraft /\ selectModeButton)
  \/ (interactionMode = "select" /\ drawModeButton)
  \/ \E id \in Ids : handleShapeSelect(id)
  \/ \E id \in Ids : elementListClick(id)
  \/ (selectedElementId # 0 /\ handleStageMouseUp)
  \/ (MayAlter /\ \E id \in Ids : wallDragEnd(id, 0, 20))
  \/ (MayAlter /\ handleEndpointHandleDragStart(1))
  \/ handleEndpointHandleDragMove(WallEnd)
  \/ handleEndpointHandleDragEnd(WallEnd)
  \/ (MayAlter /\ \E valueMm \in EditThicknessesMm : handleWallThicknessUpdate(valueMm))
  \/ (MayAlter /\ deleteSelected)
  \/ (MayAlter /\ clearCanvas)
  \/ (Len(history) > 0 /\ undoLast)

SpecSelect == Init /\ [][NextSelect]_vars

----------------------------------------------------------------------------
(* Snapping: the wall JoinFrom-JoinTo is drawn, ortho mode is switched on or
   off, and getSnappedPoint is evaluated once, before or after the wall exists,
   on a pointer near the wall's end, with or without an anchor and an extra
   candidate. The pointers lie 15, 16 and 17 units from a candidate, some only
   once locked to the anchor's axis, one as far from either axis. *)

SnapPointers ==
  { Pt(214, 8), Pt(216, 5), Pt(203, 10), Pt(210, 110),
    Pt(217, 0), Pt(215, 0), Pt(216, 0), Pt(100, 50) }
SnapAnchors == { <<>>, <<Pt(100, 0)>>, <<Pt(200, 100)>> }
SnapExtras == { <<>>, <<Pt(230, 0)>> }

NextSnap ==
  \/ (probe = NoProbe /\ elements = <<>> /\ Len(draft.points) < 2
        /\ handleStageMouseDown(IF draft = NoDraft THEN JoinFrom ELSE JoinTo))
  \/ (probe = NoProbe /\ elements = <<>> /\ Len(draft.points) = 2 /\ handleKeyEnter)
  \/ (probe = NoProbe /\ toggleOrtho)
  \/ \E point \in SnapPointers, anchor \in SnapAnchors, extraPoints \in SnapExtras :
       probe = NoProbe /\ snapProbe(point, anchor, extraPoints)

SpecSnap == Init /\ [][NextSnap]_vars

----------------------------------------------------------------------------
(* Render requests: up to MaxRenderRequests requests are submitted, one of two
   prompts each, whenever the submit button is enabled; the requests in flight
   succeed or fail in any order, and the user may leave the render stage and
   come back while they are in flight. *)

MaxRenderRequests == 3

Prompts == {"loft", "attic"}

NextRender ==
  \/ (nextId <= MaxRenderRequests
        /\ \E prompt \in Prompts, ready \in BOOLEAN : onSubmit(prompt, ready))
  \/ \E jobId \in renderRequests : renderSuccess(jobId)
  \/ \E jobId \in renderRequests : renderError(jobId)
  \/ (renderMutation # 0 /\ reopenRenderStage)

SpecRender == Init /\ [][NextRender]_vars

(* A render queue: more requests than the job list holds, submitted with one
   prompt, returning in any order, some only after their entry has left the
   list. *)

MaxQueueRequests == 6

QueuePrompt == "loft"

NextQueue ==
  \/ (nextId <= MaxQueueRequests /\ onSubmit(QueuePrompt, TRUE))
  \/ \E jobId \in renderRequests : renderSuccess(jobId)
  \/ \E jobId \in renderRequests : renderError(jobId)
  \/ (renderMutation # 0 /\ reopenRenderStage)

SpecQueue == Init /\ [][NextQueue]_vars

----------------------------------------------------------------------------
(* Properties of the edit history *)

\* N committing changes and no endpoint drag so far, then N undos and nothing else.
UndoneAll ==
  obs.phase = "undo" /\ obs.dragPushes = 0 /\ obs.undoRun = obs.commits

\* C1, as stated: starting from the empty document and the empty history, N
\* committing mutations followed by N undos leave the element list equal to the
\* initial, empty list, for every N.
C1_UndoRestoresInitial_Stated == UndoneAll => elements = <<>>

\* C1, amended: N committing mutations followed by N undos leave the element
\* list empty provided N is at most UNDO_HISTORY_LIMIT.
C1_UndoRestoresInitial ==
  (UndoneAll /\ obs.commits <= UNDO_HISTORY_LIMIT) => elements = <<>>

C1_Witness ==
  UndoneAll /\ obs.commits = UNDO_HISTORY_LIMIT /\ elements = <<>>

\* C2, as stated: an endpoint drag gesture (start, at least one move that
\* changes the document, release at any pointer position) leaves the undo
\* history exactly one entry longer than before the gesture, and that newest
\* entry is the document from before the gesture, so that one undo restores it.
C2_DragIsOneEntry_Stated ==
  [][(handleDrag # NoDrag /\ handleDrag' = NoDrag /\ obs.dragChanged)
       => /\ Len(history') = obs.dragBaseLen + 1
          /\ history'[Len(history')] = obs.dragBase]_vars

\* C3: the undo history never holds more than UNDO_HISTORY_LIMIT snapshots, and a
\* push onto a full history (by a committing change or by the start of an
\* endpoint drag) discards the oldest snapshot and keeps the others in order
\* under the new one.
C3_HistoryBounded ==
  [][/\ Len(history') <= UNDO_HISTORY_LIMIT
     /\ (Pushes' = Pushes + 1 /\ Len(history) = UNDO_HISTORY_LIMIT)
          => history' = Append(Tail(history), elements)]_vars

C3_Witness ==
  /\ Len(history) = UNDO_HISTORY_LIMIT
  /\ Pushes > UNDO_HISTORY_LIMIT + 1
  /\ obs.dragPushes > 0

\* C4: every committing change pushes the list it replaces as the newest
\* snapshot, on top of the snapshots already there (less the oldest when the
\* history was full); every undo of a non-empty history stores the newest
\* snapshot as the document and removes it from the history.
C4_PushAndPop ==
  [][/\ obs'.commits = obs.commits + 1
          => /\ Len(history') > 0
             /\ history'[Len(history')] = elements
             /\ SubSeq(history', 1, Len(history') - 1)
                  = IF Len(history) = UNDO_HISTORY_LIMIT THEN Tail(history) ELSE history
     /\ (obs'.undoRun = obs.undoRun + 1 /\ Len(history) > 0)
          => /\ elements' = history[Len(history)]
             /\ history' = SubSeq(history, 1, Len(history) - 1)]_vars

C4_Witness ==
  /\ obs.commits > UNDO_HISTORY_LIMIT
  /\ obs.phase = "undo"
  /\ Len(history) = UNDO_HISTORY_LIMIT - 1

----------------------------------------------------------------------------
(* Properties of the drawing gestures *)

PathPointSet(element) ==
  {getWallPathPoints(element)[k] : k \in 1..Len(getWallPathPoints(element))}

\* C5, as stated: every wall a drawing gesture (polyline, rectangle or arc) has
\* stored has at least two distinct points; no gesture, three arc clicks on one
\* point included, stores a wall of zero length.
C5_NoZeroLengthWall_Stated ==
  \A i \in 1..Len(elements) :
    IsWall(elements[i]) => Cardinality(PathPointSet(elements[i])) >= 2

\* C6: committing a polyline whose points are all the same point adds no wall.
C6_OnePointPolylineAddsNothing ==
  (obs.gesture.mode = "polyline" /\ obs.gesture.onePoint) => obs.gesture.added = 0

C6_Witness ==
  /\ obs.gesture.mode = "polyline"
  /\ obs.gesture.onePoint
  /\ obs.gesture.points >= 2
  /\ obs.gesture.added = 0

----------------------------------------------------------------------------
(* Properties of doors and windows *)

Openings == {i \in 1..Len(elements) : IsOpening(elements[i])}
Walls == {i \in 1..Len(elements) : IsWall(elements[i])}
OpeningsOn(wallId) == {i \in Openings : elements[i].geometry.wallId = wallId}

\* C7: in every reachable state every opening's distanceAlongPath lies between 0
\* and its wallPathLength.
C7_OpeningWithinWall ==
  \A i \in Openings :
    /\ elements[i].geometry.distanceAlongPath >= 0
    /\ elements[i].geometry.distanceAlongPath <= elements[i].geometry.wallPathLength

C7_Witness ==
  /\ \E i \in Openings : elements[i].geometry.distanceAlongPath = 0
  /\ \E i \in Openings :
       /\ elements[i].geometry.distanceAlongPath > 0
       /\ elements[i].geometry.distanceAlongPath < elements[i].geometry.wallPathLength

\* C8, as stated: an opening whose wallId names no element of the document is not
\* among the opening shapes that are rendered.
C8_OrphanNotRendered_Stated ==
  \A k \in 1..Len(openingShapes(elements)) :
    HasId(elements, ElementById(elements, openingShapes(elements)[k]).geometry.wallId)

\* C9: deleting a wall removes that element and no other: every other element,
\* the openings that reference the wall included, stays in the document as it
\* was and in the same order.
C9_DeleteWallOnly ==
  [][(/\ deleteSelected
      /\ HasId(elements, selectedElementId)
      /\ IsWall(ElementById(elements, selectedElementId)))
       => /\ Len(elements') = Len(elements) - 1
          /\ ~HasId(elements', selectedElementId)
          /\ \A i \in 1..Len(elements) :
               elements[i].id # selectedElementId
                 => elements'[IF i < IndexOf(elements, selectedElementId)
                                THEN i ELSE i - 1] = elements[i]]_vars

C9_Witness ==
  /\ Len(history) > 0
  /\ Len(elements) = Len(history[Len(history)]) - 1
  /\ \E i \in Openings :
       /\ ~HasId(elements, elements[i].geometry.wallId)
       /\ HasId(history[Len(history)], elements[i].geometry.wallId)
       /\ \E j \in 1..Len(history[Len(history)]) : history[Len(history)][j] = elements[i]

\* The straight walls that carry exactly one opening.
\* Straight walls carrying one opening.  Lengths are whole numbers here, so the
\* walls compared are those whose length is one: the square of the length is
\* the squared distance between the two ends.
SingleOpeningWalls ==
  {i \in Walls :
     LET path == getWallPathPoints(elements[i])
     IN /\ Len(path) = 2
        /\ getPathLength(path) * getPathLength(path) = DistSq(path[1], path[2])
        /\ Cardinality(OpeningsOn(elements[i].id)) = 1}

TheOpeningOn(i) == elements[CHOOSE j \in OpeningsOn(elements[i].id) : TRUE]
WallLength(i) == getPathLength(getWallPathPoints(elements[i]))
CutStart(i) == TheOpeningOn(i).geometry.distanceAlongPath - TheOpeningOn(i).width \div 2
CutEnd(i) == TheOpeningOn(i).geometry.distanceAlongPath + TheOpeningOn(i).width \div 2

RECURSIVE VisibleLength(_, _)
VisibleLength(segments, k) ==
  IF k > Len(segments) THEN 0
  ELSE getPathLength(segments[k]) + VisibleLength(segments, k + 1)

TouchesAnEnd(i) == CutStart(i) <= 0 \/ CutEnd(i) >= WallLength(i)

\* C10, as stated: a straight wall of length L with one opening of width w
\* centred at distance d is drawn as exactly two visible sub-paths, or as one
\* when the opening touches an end of the wall, and their lengths sum to L - w.
C10_VisibleSubPaths_Stated ==
  \A i \in SingleOpeningWalls :
    LET segments == wallSegments(elements, elements[i])
    IN /\ Len(segments) = IF TouchesAnEnd(i) THEN 1 ELSE 2
       /\ VisibleLength(segments, 1) = WallLength(i) - TheOpeningOn(i).width

\* C10, amended: the same, provided the cut-out [d - w/2, d + w/2] lies within
\* the wall, [0, L], and is shorter than the wall.
C10_VisibleSubPaths ==
  \A i \in SingleOpeningWalls :
    (CutStart(i) >= 0 /\ CutEnd(i) <= WallLength(i)
       /\ TheOpeningOn(i).width < WallLength(i))
      => LET segments == wallSegments(elements, elements[i])
         IN /\ Len(segments) = IF TouchesAnEnd(i) THEN 1 ELSE 2
            /\ VisibleLength(segments, 1) = WallLength(i) - TheOpeningOn(i).width

C10_Witness ==
  /\ \E i \in SingleOpeningWalls :
       /\ CutStart(i) = 0 /\ CutEnd(i) < WallLength(i)
       /\ Len(wallSegments(elements, elements[i])) = 1
  /\ \E i \in SingleOpeningWalls :
       /\ CutStart(i) > 0 /\ CutEnd(i) < WallLength(i)
       /\ Len(wallSegments(elements, elements[i])) = 2

----------------------------------------------------------------------------
(* Properties of snapping to walls *)

\* The squared distance of a point to a segment parallel to an axis.
AxisSegmentDistSq(p, a, b) ==
  LET ox == Max(0, Max(Min(a.x, b.x) - p.x, p.x - Max(a.x, b.x)))
      oy == Max(0, Max(Min(a.y, b.y) - p.y, p.y - Max(a.y, b.y)))
  IN ox * ox + oy * oy

AxisWalls ==
  {i \in Walls : /\ elements[i].geometry.kind = "polyline"
                 /\ \/ elements[i].geometry.points[1].x = elements[i].geometry.points[2].x
                    \/ elements[i].geometry.points[1].y = elements[i].geometry.points[2].y}

WallDistSq(p, i) ==
  AxisSegmentDistSq(p, elements[i].geometry.points[1], elements[i].geometry.points[2])

SnapLimitSq == OPENING_SNAP_DISTANCE * OPENING_SNAP_DISTANCE

\* C11: findSnapPointOnWalls returns a result when the least distance from the
\* point to a wall is below OPENING_SNAP_DISTANCE, returns none when it is
\* above, and the result names a wall at that least distance, with the point's
\* projection on it.
C11_SnapThreshold ==
  (AxisWalls = Walls) =>
    \A p \in ProbePoints :
      LET snap == findSnapPointOnWalls(p, wallElements(elements))
      IN /\ (\E i \in Walls : WallDistSq(p, i) < SnapLimitSq) => snap # NoSnap
         /\ (\A i \in Walls : WallDistSq(p, i) > SnapLimitSq) => snap = NoSnap
         /\ snap # NoSnap =>
              \E i \in Walls :
                /\ elements[i].id = snap.wallId
                /\ \A j \in Walls : WallDistSq(p, i) <= WallDistSq(p, j)
                /\ DistSq(p, snap.point) = WallDistSq(p, i)

\* The pointer at distance 39 of the south wall has snapped to it, and at
\* distance 41 there is no snap; at the corner the nearer wall is named.
C11_Witness ==
  /\ Cardinality(Walls) = 4
  /\ pendingOpening # NoOpening
  /\ pendingSnap # NoSnap
  /\ pendingSnap = findSnapPointOnWalls(Pt(200, 261), wallElements(elements))
  /\ findSnapPointOnWalls(Pt(200, 259), wallElements(elements)) = NoSnap
  /\ findSnapPointOnWalls(Pt(20, 270), wallElements(elements)).wallId
       # findSnapPointOnWalls(Pt(30, 280), wallElements(elements)).wallId

\* The room's walls as the rectangle gesture commits them.
IsTwoPointWall(element) ==
  /\ IsWall(element)
  /\ element.geometry.kind = "polyline"
  /\ Len(element.geometry.points) = 2

RoomWalls(doc) ==
  /\ Len(doc) >= 4
  /\ \A i \in 1..4 : IsTwoPointWall(doc[i])
  /\ doc[3].geometry.points = <<RoomTo, Pt(RoomFrom.x, RoomTo.y)>>

\* C12: the rectangle from (0,0) to (400,300) adds exactly 4 walls, each a
\* two-point polyline; a door of width 120 then placed at the midpoint of the
\* south wall adds exactly one opening, on the south wall at distance 200 along
\* it, and the south wall is drawn as two sub-segments of combined length 280.
C12_RoomWithDoor ==
  [][ /\ (elements = <<>> /\ draft = [mode |-> "rectangle", points |-> <<RoomFrom>>]
            /\ handleStageMouseDown(RoomTo))
        => (Len(elements') = 4 /\ RoomWalls(elements') /\ Len(history') = Len(history) + 1)
      /\ (Len(elements) = 4 /\ RoomWalls(elements)
            /\ pendingOpening # NoOpening /\ pendingOpening.type = "door"
            /\ pendingOpening.width = DoorWidth
            /\ pendingSnap # NoSnap /\ pendingSnap.point = SouthMid
            /\ handleStageMouseDown(RoomFrom))
        => /\ Len(elements') = 5
           /\ SubSeq(elements', 1, 4) = elements
           /\ IsOpening(elements'[5])
           /\ elements'[5].type = "door"
           /\ elements'[5].geometry.wallId = elements[3].id
           /\ elements'[5].geometry.distanceAlongPath = 200
           /\ LET segments == wallSegments(elements', elements'[3])
              IN /\ Len(segments) = 2
                 /\ getPathLength(segments[1]) + getPathLength(segments[2]) = 280
    ]_vars

C12_Witness ==
  /\ Len(elements) = 5
  /\ RoomWalls(elements)
  /\ elements[5].type = "door"
  /\ elements[5].width = DoorWidth
  /\ elements[5].geometry.wallId = elements[3].id
  /\ elements[5].geometry.distanceAlongPath = 200
  /\ Len(wallSegments(elements, elements[3])) = 2

----------------------------------------------------------------------------
(* Properties of the drawing gestures *)

Drawing == interactionMode = "draw" /\ pendingOpening = NoOpening

\* C13: with the polyline tool the first click seeds a one-point draft and each
\* further click appends one point; Escape removes the last point of a draft of
\* more than one point and cancels a draft of exactly one point; none of these
\* steps changes the document.
C13_PolylineDraft ==
  [][ /\ \A p \in ClickPoints :
           (Drawing /\ activeWallTool = "polyline" /\ handleStageMouseDown(p))
             => /\ draft'.mode = "polyline"
                /\ IF draft.mode = "polyline"
                     THEN /\ Len(draft'.points) = Len(draft.points) + 1
                          /\ SubSeq(draft'.points, 1, Len(draft.points)) = draft.points
                     ELSE Len(draft'.points) = 1
                /\ UNCHANGED <<elements, history>>
      /\ (Drawing /\ draft.mode = "polyline" /\ handleKeyEscape)
           => /\ IF Len(draft.points) > 1
                   THEN draft' = [mode |-> "polyline",
                                  points |-> SubSeq(draft.points, 1, Len(draft.points) - 1)]
                   ELSE draft' = NoDraft
              /\ UNCHANGED <<elements, history>>
    ]_vars

\* Escape has taken the third point off a polyline draft.
C13_Witness ==
  /\ obs.escape = [had |-> 3, left |-> 2]
  /\ draft.mode = "polyline"
  /\ Len(draft.points) = 2
  /\ elements = <<>>

RectangleCorners(a, b) == <<Pt(a.x, a.y), Pt(b.x, a.y), Pt(b.x, b.y), Pt(a.x, b.y)>>

\* The four edges between the anchor and the opposite corner, appended to the
\* document in one undo step, and the draft idle.
CommitsFourEdges(a, b) ==
  /\ Len(elements') = Len(elements) + 4
  /\ SubSeq(elements', 1, Len(elements)) = elements
  /\ \A k \in 1..4 :
       /\ IsTwoPointWall(elements'[Len(elements) + k])
       /\ elements'[Len(elements) + k].geometry.points
            = <<RectangleCorners(a, b)[k], RectangleCorners(a, b)[(k % 4) + 1]>>
  /\ Len(history') = Len(history) + 1
  /\ history'[Len(history')] = elements
  /\ draft' = NoDraft

\* C14, as stated: with the rectangle tool the first click seeds the anchor
\* corner and the second click commits exactly 4 two-point walls, the 4 edges
\* between the anchor and the opposite corner, in a single undo step, and the
\* draft is idle again.
C14_RectangleCommit_Stated ==
  [][ \A p \in ClickPoints :
        (Drawing /\ activeWallTool = "rectangle" /\ handleStageMouseDown(p))
          => IF draft.mode # "rectangle"
               THEN /\ draft' = [mode |-> "rectangle", points |-> <<p>>]
                    /\ UNCHANGED <<elements, history>>
               ELSE CommitsFourEdges(draft.points[1], p)
    ]_vars

\* C14, amended: the second click commits the 4 edges provided the opposite
\* corner is at least 2 units from the anchor along both axes; otherwise it
\* commits nothing, pushes no undo step, and the draft is idle again.
C14_RectangleCommit ==
  [][ \A p \in ClickPoints :
        (Drawing /\ activeWallTool = "rectangle" /\ handleStageMouseDown(p))
          => IF draft.mode # "rectangle"
               THEN /\ draft' = [mode |-> "rectangle", points |-> <<p>>]
                    /\ UNCHANGED <<elements, history>>
             ELSE IF Abs(p.x - draft.points[1].x) >= 2 /\ Abs(p.y - draft.points[1].y) >= 2
               THEN CommitsFourEdges(draft.points[1], p)
             ELSE draft' = NoDraft /\ UNCHANGED <<elements, history>>
    ]_vars

C14_Witness ==
  /\ obs.gesture.mode = "rectangle"
  /\ obs.gesture.added = 4
  /\ Len(elements) = 4
  /\ \A k \in 1..4 : IsTwoPointWall(elements[k])
  /\ Len(history) = 1
  /\ draft = NoDraft

\* C16, as stated: switching the wall tool or pressing Escape while a draft is
\* in progress makes the draft idle and leaves the document and the undo
\* history unchanged.
C16_DraftDiscarded_Stated ==
  [][ (draft # NoDraft /\ (handleKeyEscape \/ \E tool \in {"polyline", "rectangle", "arc"} :
                                                selectWallTool(tool)))
        => (draft' = NoDraft /\ UNCHANGED <<elements, history>>)
    ]_vars

\* C16, amended: switching to another wall tool makes the draft idle; Escape
\* makes it idle unless it is a polyline draft of more than one point, which
\* loses its last point; the document and the undo history are unchanged.
C16_DraftDiscarded ==
  [][ /\ (draft # NoDraft /\ \E tool \in {"polyline", "rectangle", "arc"} :
                                selectWallTool(tool))
           => (draft' = NoDraft /\ UNCHANGED <<elements, history>>)
      /\ (draft # NoDraft /\ handleKeyEscape)
           => /\ UNCHANGED <<elements, history>>
              /\ IF draft.mode = "polyline" /\ Len(draft.points) > 1
                   THEN /\ draft'.mode = "polyline"
                        /\ Len(draft'.points) = Len(draft.points) - 1
                   ELSE draft' = NoDraft
    ]_vars

\* The arc tool was chosen over a draft in progress, as every tool is in these
\* sessions, and Escape has discarded the one-point arc draft that followed.
C16_Witness ==
  /\ activeWallTool = "arc"
  /\ obs.escape = [had |-> 1, left |-> 0]
  /\ draft = NoDraft
  /\ elements = <<>>
  /\ history = <<>>

----------------------------------------------------------------------------
(* Properties of opening placement *)

\* The pending snap names a wall of the document.
ValidSnap == pendingSnap # NoSnap /\ HasId(elements, pendingSnap.wallId)

\* C15: while a placement is pending, a click with a valid snap adds exactly
\* one opening, bound to the snapped wall, and ends the placement; a click
\* without one adds nothing and the placement stays pending; Escape ends the
\* placement and leaves the document and the undo history unchanged.
C15_PendingPlacement ==
  [][ /\ (pendingOpening # NoOpening /\ handleStageMouseDown(RoomFrom))
           => IF ValidSnap
                THEN /\ Len(elements') = Len(elements) + 1
                     /\ SubSeq(elements', 1, Len(elements)) = elements
                     /\ IsOpening(elements'[Len(elements')])
                     /\ elements'[Len(elements')].type = pendingOpening.type
                     /\ elements'[Len(elements')].geometry.wallId = pendingSnap.wallId
                     /\ ~HasId(elements, elements'[Len(elements')].id)
                     /\ pendingOpening' = NoOpening
                ELSE UNCHANGED <<elements, history, pendingOpening>>
      /\ (pendingOpening # NoOpening /\ handleKeyEscape)
           => (pendingOpening' = NoOpening /\ UNCHANGED <<elements, history>>)
    ]_vars

\* A window has been placed on the west wall of the room and the placement is over.
C15_Witness ==
  /\ Len(elements) = 5
  /\ RoomWalls(elements)
  /\ elements[5].type = "window"
  /\ elements[5].geometry.wallId = elements[4].id
  /\ pendingOpening = NoOpening
  /\ pendingSnap = NoSnap
  /\ Len(history) = 2

\* The opening at index k of doc carries the values of snap.
CarriesSnap(doc, k, snap) ==
  /\ doc[k].left = snap.point.x - doc[k].width \div 2
  /\ doc[k].top = snap.point.y - doc[k].height \div 2
  /\ doc[k].geometry.x = doc[k].left
  /\ doc[k].geometry.y = doc[k].top
  /\ doc[k].angle = snap.angle
  /\ doc[k].geometry.angle = snap.angle
  /\ doc[k].geometry.wallId = snap.wallId
  /\ doc[k].geometry.distanceAlongPath = snap.distanceAlongPath
  /\ doc[k].geometry.wallPathLength = snap.pathLength

\* C17: dragging an opening to a position with no wall within snap range
\* leaves the document and the undo history unchanged; when there is a snap,
\* the opening's position, angle, wallId, distanceAlongPath and wallPathLength
\* all become those of that one snap result, the opening keeps its id, and the
\* other elements are untouched.
C17_OpeningDrag ==
  [][ \A id \in Ids, p \in DragStops :
        handleOpeningDrag(id, p)
          => LET snap == findSnapPointOnWalls(p, wallElements(elements))
                 k == IndexOf(elements, id)
             IN IF snap = NoSnap
                  THEN UNCHANGED <<elements, history>>
                  ELSE /\ Len(elements') = Len(elements)
                       /\ \A j \in 1..Len(elements) : j # k => elements'[j] = elements[j]
                       /\ elements'[k].id = id
                       /\ elements'[k].type = elements[k].type
                       /\ elements'[k].width = elements[k].width
                       /\ CarriesSnap(elements', k, snap)
    ]_vars

\* The newest snapshot holds the same opening bound to another wall: a drag
\* has moved it from one wall to the other.
C17_Witness ==
  /\ Len(history) > 0
  /\ \E k \in Openings :
       LET before == history[Len(history)]
       IN /\ Len(before) = Len(elements)
          /\ IsOpening(before[k])
          /\ before[k].id = elements[k].id
          /\ before[k].geometry.wallId # elements[k].geometry.wallId
          /\ HasId(elements, elements[k].geometry.wallId)

----------------------------------------------------------------------------
(* Properties of the wall mesh *)

\* The render that was looked at last drew the current document and selection.
Rendered == obs.mesh.doc = elements /\ obs.mesh.selected = selectedElementId

\* The shapes that registered the edge key in the render.
Contributors(key) ==
  {obs.mesh.out.contributions[k].shape :
     k \in {j \in 1..Len(obs.mesh.out.contributions) :
              obs.mesh.out.contributions[j].key = key}}

OutlineKeys == {edge.key : edge \in obs.mesh.out.outline}
RegisteredKeys ==
  {obs.mesh.out.contributions[k].key : k \in 1..Len(obs.mesh.out.contributions)}

\* C18, as stated: after the wall mesh is built, an edge that two different
\* shapes contributed is not in the outline set, and every edge of the outline
\* set was contributed by a single shape.
C18_SharedEdgeNotStroked_Stated ==
  Rendered =>
    /\ \A key \in RegisteredKeys : Cardinality(Contributors(key)) = 2 => key \notin OutlineKeys
    /\ \A key \in OutlineKeys : Cardinality(Contributors(key)) = 1

Registrations(key) ==
  Cardinality({k \in 1..Len(obs.mesh.out.contributions) :
                 obs.mesh.out.contributions[k].key = key})

\* C18, amended: an edge is in the outline set exactly when it was registered
\* an odd number of times: an edge that two shapes contributed once each is not
\* in it, an edge that one shape contributed once is, and so is an edge that
\* three shapes contributed.
C18_SharedEdgeNotStroked ==
  Rendered =>
    /\ \A key \in RegisteredKeys : key \in OutlineKeys <=> Registrations(key) % 2 = 1
    /\ OutlineKeys \subseteq RegisteredKeys

\* An edge of the render was contributed by two walls and is not stroked,
\* and another by one wall and is.
C18_Witness ==
  /\ Rendered
  /\ \E key \in RegisteredKeys :
       /\ Cardinality(Contributors(key)) = 2
       /\ Registrations(key) = 2
       /\ key \notin OutlineKeys
  /\ \E key \in OutlineKeys : Registrations(key) = 1

\* Two walls, straight and each a single segment, end at the same point p and
\* are perpendicular there.
RightAngleAt(i, j, p) ==
  /\ i # j
  /\ IsTwoPointWall(elements[i]) /\ IsTwoPointWall(elements[j])
  /\ \E a \in 1..2, b \in 1..2 :
       LET u == elements[i].geometry.points
           v == elements[j].geometry.points
       IN /\ u[a] = p /\ v[b] = p
          /\ u[1] # u[2] /\ v[1] # v[2]
          /\ (u[2].x - u[1].x) * (v[2].x - v[1].x)
               + (u[2].y - u[1].y) * (v[2].y - v[1].y) = 0

Corners ==
  {p \in {elements[i].geometry.points[k] : i \in Walls, k \in 1..2} :
     \E i, j \in Walls : RightAngleAt(i, j, p)}

\* C19, as stated: for two walls that share an endpoint and meet there at a
\* right angle, the render has a connection patch at the shared point.
C19_CornerPatch_Stated ==
  (Rendered /\ \A i \in Walls : IsTwoPointWall(elements[i])) =>
    \A p \in Corners :
      \E k \in 1..Len(obs.mesh.out.patches) : obs.mesh.out.patches[k].point = ToMesh(p)

----------------------------------------------------------------------------
(* Wall ends in the mesh *)

\* Another wall of the document has an endpoint at p.
Adjoins(id, p) ==
  \E j \in Walls : elements[j].id # id /\ p \in {elements[j].geometry.points[1],
                                                     elements[j].geometry.points[2]}

\* Twice the middle of the polygon's edge across the wall at its start and at its end.
StartOfShape(shape) ==
  Pt(shape.points[1].x + shape.points[4].x, shape.points[1].y + shape.points[4].y)
EndOfShape(shape) ==
  Pt(shape.points[2].x + shape.points[3].x, shape.points[2].y + shape.points[3].y)

\* The polygon ends where the wall end p does if the end is joined, and half the
\* stroke further along the outward direction out if it is free.
EndsAsStated(reached, id, p, out, half) ==
  LET shift == normalizeVector(out.x, out.y, half)
  IN IF Adjoins(id, p)
       THEN reached = Pt(2 * ToMesh(p).x, 2 * ToMesh(p).y)
       ELSE reached = Pt(2 * (ToMesh(p).x + shift.x), 2 * (ToMesh(p).y + shift.y))

\* C23, as stated: in the render of a document of straight walls, a wall end
\* that no other wall adjoins is extended outward by half the wall's stroke,
\* and an end that another wall's endpoint adjoins is not extended.
C23_FreeEndExtended_Stated ==
  (Rendered /\ \A i \in Walls : IsTwoPointWall(elements[i])) =>
    \A k \in 1..Len(obs.mesh.out.shapes) :
      LET shape == obs.mesh.out.shapes[k]
          wall == ElementById(elements, shape.wallId)
          a == wall.geometry.points[1]
          b == wall.geometry.points[2]
      IN shape.kind = "polygon" =>
           /\ EndsAsStated(StartOfShape(shape), wall.id, a, Pt(a.x - b.x, a.y - b.y),
                           HalfStroke(wall))
           /\ EndsAsStated(EndOfShape(shape), wall.id, b, Pt(b.x - a.x, b.y - a.y),
                           HalfStroke(wall))

\* The render put fragments of the wall into the junction at its end p.
MeshedAsJunction(id, p) ==
  \E k \in 1..Len(obs.mesh.out.patchMap) :
    /\ obs.mesh.out.patchMap[k].point = ToMesh(p)
    /\ \E f \in 1..Len(obs.mesh.out.patchMap[k].fragments) :
         obs.mesh.out.patchMap[k].fragments[f].wallId = id

\* A drag of an endpoint away from p would take an endpoint of another wall along.
JoinedForPropagation(id, p) ==
  \E j \in Walls :
    /\ elements[j].id # id
    /\ adjustWallEndpointGeometry(elements[j], p, Pt(1, 0),
                                  WALL_CONNECTION_TOLERANCE).changed

\* C24, as stated: the render treats a wall end as connected exactly when an
\* endpoint of another wall lies within the connection tolerance of 12 units of
\* it, which is when endpoint-drag propagation treats the two as joined.
C24_SameAdjacency_Stated ==
  (Rendered /\ \A i \in Walls : IsTwoPointWall(elements[i])) =>
    \A i \in Walls, e \in 1..2 :
      MeshedAsJunction(elements[i].id, elements[i].geometry.points[e])
        <=> JoinedForPropagation(elements[i].id, elements[i].geometry.points[e])

----------------------------------------------------------------------------
(* Endpoint drags *)

DraggedWall == ElementById(elements, handleDrag.wallId)

\* The endpoint being dragged and the other endpoint of its wall, before the step.
DraggedEnd ==
  LET path == getWallPathPoints(DraggedWall)
  IN IF handleDrag.endpointIndex = 0 THEN path[1] ELSE path[Len(path)]
OtherEnd ==
  LET path == getWallPathPoints(DraggedWall)
  IN IF handleDrag.endpointIndex = 0 THEN path[Len(path)] ELSE path[1]

\* Where a drag to the pointer position lands the endpoint of a two-point wall.
Landing(point) == getSnappedPoint(elements, orthoMode, point, <<OtherEnd>>, <<>>)

\* C25, as stated: a move or a release of an endpoint drag that lands the
\* endpoint on the other endpoint of its wall is rejected; the document stays
\* as it is and holds no wall of zero length.
C25_DegenerateDragRejected_Stated ==
  [][ \A p \in JoinStops :
        ( /\ handleDrag # NoDrag
          /\ IsTwoPointWall(DraggedWall)
          /\ DraggedEnd # OtherEnd
          /\ Landing(p) = OtherEnd
          /\ handleEndpointHandleDragMove(p) \/ handleEndpointHandleDragEnd(p) )
        => elements' = elements
    ]_vars

WithinTolerance(a, b) ==
  DistSq(a, b) <= WALL_CONNECTION_TOLERANCE * WALL_CONNECTION_TOLERANCE

\* The endpoint of the dragged wall after the step.
DraggedEndAfter ==
  LET path == getWallPathPoints(ElementById(elements', handleDrag.wallId))
  IN IF handleDrag.endpointIndex = 0 THEN path[1] ELSE path[Len(path)]

\* C26: when a drag step moves a wall endpoint from P to P', every endpoint of
\* another wall that lay within the connection tolerance of P is moved by
\* P' - P, every other endpoint of another wall stays where it was, and a wall
\* with no endpoint within the tolerance of P is left as it is, also when it
\* adjoins a wall that was moved.
C26_SingleHopPropagation ==
  [][ (handleDrag # NoDrag /\ elements' # elements) =>
        LET delta == Pt(DraggedEndAfter.x - DraggedEnd.x, DraggedEndAfter.y - DraggedEnd.y)
        IN /\ Len(elements') = Len(elements)
           /\ \A j \in 1..Len(elements) :
                (IsWall(elements[j]) /\ elements[j].id # handleDrag.wallId) =>
                  LET before == getWallPathPoints(elements[j])
                      after == getWallPathPoints(elements'[j])
                      n == Len(before)
                  IN /\ Len(after) = n
                     /\ \A e \in {1, n} :
                          after[e] = IF WithinTolerance(before[e], DraggedEnd)
                                       THEN Moved(before[e], delta)
                                       ELSE before[e]
                     /\ \A e \in 2..(n - 1) : after[e] = before[e]
                     /\ (~WithinTolerance(before[1], DraggedEnd)
                          /\ ~WithinTolerance(before[n], DraggedEnd))
                          => elements'[j] = elements[j]
    ]_vars

\* The end of the first wall was dragged from JoinTo to (100, 0): the two loop
\* walls that ended NearGap units from it were moved along by the same delta,
\* and the loop wall that adjoins one of them but not the dragged end was not.
C26_Witness ==
  /\ Len(elements) = 5
  /\ elements[1].geometry.points = <<JoinFrom, Pt(100, 0)>>
  /\ elements[2].geometry.points = <<Pt(100 + NearGap, 0), Pt(LoopTo.x, 0)>>
  /\ elements[3].geometry.points = <<Pt(LoopTo.x, 0), LoopTo>>
  /\ elements[5].geometry.points = <<Pt(LoopFrom.x, LoopTo.y), Pt(100 + NearGap, 0)>>
  /\ handleDrag = NoDrag

----------------------------------------------------------------------------
(* Polyline and arc commits *)

\* The points of the draft that differ from the point before them, in order.
WithoutRepeats(points) ==
  LET kept == {i \in 1..Len(points) : i = 1 \/ points[i] # points[i - 1]}
  IN [k \in 1..Cardinality(kept) |->
       points[CHOOSE i \in kept : Cardinality({j \in kept : j <= i}) = k]]

ArcClick(p) ==
  /\ activeWallTool = "arc" /\ interactionMode = "draw" /\ pendingOpening = NoOpening
  /\ handleStageMouseDown(p)

\* C30: with the arc tool the first and the second click only extend the draft
\* and commit nothing; the third click appends one wall with arc geometry
\* holding the three clicked points (start, control, end) in order, pushes the
\* document before as the one undo step, and leaves the draft idle.
C30_ArcCommit ==
  [][ \A p \in ClickPoints : ArcClick(p) =>
        IF draft.mode = "arc" /\ Len(draft.points) = 2
          THEN /\ draft' = NoDraft
               /\ Len(elements') = Len(elements) + 1
               /\ SubSeq(elements', 1, Len(elements)) = elements
               /\ IsWall(elements'[Len(elements')])
               /\ elements'[Len(elements')].geometry.kind = "arc"
               /\ elements'[Len(elements')].geometry.points = Append(draft.points, p)
               /\ history' = Append(history, elements)
          ELSE /\ elements' = elements /\ history' = history
               /\ draft' = [mode |-> "arc",
                            points |-> IF draft.mode = "arc" THEN Append(draft.points, p)
                                       ELSE <<p>>]
    ]_vars

\* Three clicks with the arc tool have committed one arc wall through the three
\* clicked points, in one undo step.
C30_Witness ==
  /\ obs.gesture.mode = "arc"
  /\ obs.gesture.points = 3
  /\ obs.gesture.added = 1
  /\ Len(elements) = 1 /\ Len(history) = 1
  /\ elements[1].geometry.kind = "arc"
  /\ elements[1].geometry.points = <<P0, P2, P1>>
  /\ draft = NoDraft

----------------------------------------------------------------------------
(* Cutting intervals out of a path *)

Cut == probe.of = "subtractIntervalsFromPath"

OnSegment(q, a, b) == distanceBetween(a, q) + distanceBetween(q, b) = distanceBetween(a, b)

\* The distance along the path at which it first passes through q.
PositionOn(points, q) ==
  LET through == {i \in 1..(Len(points) - 1) : OnSegment(q, points[i], points[i + 1])}
      first == CHOOSE i \in through : \A j \in through : i <= j
  IN IF through = {} THEN 0
     ELSE getPathLength(SubSeq(points, 1, first)) + distanceBetween(points[first], q)

CutLength == getPathLength(probe.points)

\* The intervals given, clipped to the path, the empty ones left out.
Clipped ==
  { [start |-> Max(0, Min(iv.start, CutLength)), end |-> Max(0, Min(iv.end, CutLength))] :
      iv \in {iv \in {probe.intervals[i] : i \in 1..Len(probe.intervals)} :
                Max(0, Min(iv.end, CutLength)) > Max(0, Min(iv.start, CutLength))} }

\* The length of the union of the clipped intervals, counted unit by unit.
Covered ==
  Cardinality({u \in 0..(CutLength - 1) :
                 \E iv \in Clipped : iv.start <= u /\ u + 1 <= iv.end})

From(k) == PositionOn(probe.points, probe.segments[k][1])
Upto(k) == PositionOn(probe.points, probe.segments[k][Len(probe.segments[k])])

\* C28: the sub-paths subtractIntervalsFromPath returns are sections of the
\* path inside [0, totalLength], in order and not overlapping, none reaches
\* into an interval that was removed, their lengths add up to totalLength
\* minus the length of the union of the clipped intervals, and there is none
\* when the intervals cover the whole path.
C28_SubtractIntervals ==
  Cut =>
    /\ \A k \in 1..Len(probe.segments) :
         /\ \A v \in 1..Len(probe.segments[k]) :
              \E i \in 1..(Len(probe.points) - 1) :
                OnSegment(probe.segments[k][v], probe.points[i], probe.points[i + 1])
         /\ 0 <= From(k) /\ From(k) <= Upto(k) /\ Upto(k) <= CutLength
         /\ getPathLength(probe.segments[k]) = Upto(k) - From(k)
         /\ \A l \in (k + 1)..Len(probe.segments) : Upto(k) <= From(l)
         /\ \A iv \in Clipped : ~(From(k) < iv.end /\ iv.start < Upto(k))
    /\ VisibleLength(probe.segments, 1) = CutLength - Covered
    /\ (CutLength > 0 /\ Covered = CutLength) => probe.segments = <<>>

\* Two intervals given out of order, overlapping and the later one reaching
\* beyond the end of a bent path left one sub-path; and (second witness below)
\* intervals covering a whole path left none.
C28_Witness ==
  /\ Cut
  /\ Len(probe.points) = 3
  /\ Len(probe.intervals) = 2
  /\ probe.intervals[1].start > probe.intervals[2].start
  /\ probe.intervals[1].end > CutLength
  /\ probe.intervals[2].end > probe.intervals[1].start
  /\ probe.intervals[2].start > 0
  /\ Len(probe.segments) = 1

----------------------------------------------------------------------------
(* Snapping a point *)

Snapped == probe.of = "getSnappedPoint"

\* The point locked to the axis through the anchor from which it deviates less;
\* as far from both, to the horizontal one when level, to the vertical otherwise.
Locked(point, anchor, level) ==
  LET dx == Abs(point.x - anchor.x)
      dy == Abs(point.y - anchor.y)
  IN IF dy < dx \/ (dy = dx /\ level) THEN Pt(point.x, anchor.y) ELSE Pt(anchor.x, point.y)

Adjusted(level) ==
  IF probe.ortho /\ probe.anchor # <<>>
    THEN Locked(probe.point, probe.anchor[1], level)
    ELSE probe.point

\* All wall endpoints of the document and the extra candidates.
Candidates ==
  UNION {{getWallPathPoints(elements[i])[1],
          getWallPathPoints(elements[i])[Len(getWallPathPoints(elements[i]))]} :
           i \in {i \in 1..Len(elements) : IsWall(elements[i])}}
    \cup {probe.extraPoints[i] : i \in 1..Len(probe.extraPoints)}

NearestTo(base, c) == c \in Candidates /\ \A d \in Candidates : DistSq(base, c) <= DistSq(base, d)

\* The result is a nearest candidate when one lies within the reach (squared)
\* of the adjusted point, and the adjusted point otherwise.
SnapsWithin(base, reachSq, inclusive) ==
  IF \E c \in Candidates : DistSq(base, c) < reachSq \/ (inclusive /\ DistSq(base, c) = reachSq)
    THEN NearestTo(base, probe.result)
    ELSE probe.result = base

SnapReachSq == WALL_SNAP_THRESHOLD * WALL_SNAP_THRESHOLD

\* C29 as stated: with ortho mode on and an anchor given the point is locked to
\* the axis through the anchor with the smaller deviation (either one when the
\* deviations are equal); if the nearest candidate among the wall endpoints and
\* the extra candidates is within 16 units of the adjusted point, 16 included,
\* the result is that candidate, otherwise the adjusted point.
C29_SnapPoint_Stated ==
  Snapped => \E level \in BOOLEAN : SnapsWithin(Adjusted(level), SnapReachSq, TRUE)

\* C29: with ortho mode on and an anchor given the point is locked to the axis
\* through the anchor with the smaller deviation, the horizontal one when the
\* deviations are equal; if the nearest candidate among the wall endpoints and
\* the extra candidates is less than 16 units from the adjusted point the result
\* is that candidate, otherwise (at 16 units or more) the adjusted point.
C29_SnapPoint ==
  Snapped => SnapsWithin(Adjusted(TRUE), SnapReachSq, FALSE)

\* A pointer more than 16 units from the wall's end was locked to the axis of
\* the anchor and then taken to the wall's end, 14 units from the locked point.
C29_Witness ==
  /\ Snapped
  /\ probe.ortho /\ probe.anchor # <<>>
  /\ Adjusted(TRUE) # probe.point
  /\ DistSq(probe.point, probe.result) > SnapReachSq
  /\ probe.result \in Candidates
  /\ probe.result # Adjusted(TRUE)

----------------------------------------------------------------------------
(* Edits in place *)

\* A wall translation, an endpoint drag step, an opening reposition, or an edit
\* of thickness, colour, material or an opening's dimensions.
EditInPlace ==
  \/ \E id \in Ids : wallDragEnd(id, 0, 20)
  \/ handleEndpointHandleDragStart(1)
  \/ handleEndpointHandleDragMove(WallEnd)
  \/ handleEndpointHandleDragEnd(WallEnd)
  \/ \E id \in Ids, p \in EditPointers : handleOpeningDrag(id, p)
  \/ \E valueMm \in EditThicknessesMm : handleWallThicknessUpdate(valueMm)
  \/ handleWallColorUpdate(EditColor)
  \/ handleWallMaterialUpdate(EditMaterial)
  \/ \E valueMm \in EditWidthsMm : handleOpeningDimensionUpdate("width", valueMm)
  \/ \E valueMm \in EditHeightsMm : handleOpeningDimensionUpdate("height", valueMm)

IdsInOrder(doc) == [i \in 1..Len(doc) |-> doc[i].id]

\* C31: a wall translation, an endpoint drag (with its propagation), an opening
\* reposition and an edit of thickness, colour, material or dimensions keep the
\* number of elements, their order and every element's id.
C31_EditsKeepIds ==
  [][ EditInPlace => IdsInOrder(elements') = IdsInOrder(elements) ]_vars

\* The first wall has been made thicker and moved, the walls and the door
\* standing where they stood in the list.
C31_Witness ==
  /\ Len(elements) = 3
  /\ IdsInOrder(elements) = <<1, 2, 3>>
  /\ elements[1].thicknessMm > defaultWallThicknessMm
  /\ elements[1].geometry.points[1] # P0
  /\ Len(history) = 4

\* A wall translation or a step of an endpoint drag.
WallMove ==
  \/ \E id \in Ids : wallDragEnd(id, 0, 20)
  \/ handleEndpointHandleDragStart(1)
  \/ handleEndpointHandleDragMove(WallEnd)
  \/ handleEndpointHandleDragEnd(WallEnd)

\* C37: translating a wall and dragging a wall endpoint, propagation included,
\* leave every opening as it was, its x, y, angle, distanceAlongPath and
\* wallPathLength among the rest, whether or not its wall moved.
C37_WallMovesKeepOpenings ==
  [][ WallMove =>
        /\ Len(elements') = Len(elements)
        /\ \A i \in 1..Len(elements) : IsOpening(elements[i]) => elements'[i] = elements[i]
    ]_vars

\* The end of the first wall was dragged to the middle of the wall; the door
\* on it still holds the length the wall had when the door was placed.
C37_Witness ==
  /\ Len(elements) = 3
  /\ getWallPathPoints(elements[1]) = <<P0, WallEnd>>
  /\ IsOpening(elements[3])
  /\ elements[3].geometry.wallId = elements[1].id
  /\ elements[3].geometry.wallPathLength = distanceBetween(P0, P1)

\* C38 as stated: an endpoint drag released without the document having
\* changed since the drag started leaves the undo history as it was before
\* the drag started.
C38_IdleDragNoHistory_Stated ==
  [][ \A p \in DragPoints :
        (handleEndpointHandleDragEnd(p) /\ ~obs.dragChanged /\ elements' = elements) =>
          /\ Len(history') = obs.dragBaseLen
          /\ (history' # <<>> => history'[Len(history')] # elements')
    ]_vars

----------------------------------------------------------------------------
(* Thickness and width that are not positive *)

ShapesOf(doc, wallId) ==
  LET shapes == WallMesh(doc, 0).shapes
  IN {k \in 1..Len(shapes) : shapes[k].wallId = wallId}

----------------------------------------------------------------------------
(* Labels *)

\* C33 as stated: elements of the same kind never share a label.
C33_LabelsDistinct_Stated ==
  \A i, j \in 1..Len(elements) :
    (i # j /\ elements[i].type = elements[j].type) => elements[i].label # elements[j].label

----------------------------------------------------------------------------
(* Drafts and pending placements *)

\* C34: a draft wall gesture and a pending opening placement are never active
\* at the same time.
C34_DraftOrPending ==
  draft = NoDraft \/ pendingOpening = NoOpening

\* A placement is pending over a document with walls, with the rectangle tool
\* chosen and no draft; the clicks made while it was pending began no draft.
C34_Witness ==
  /\ pendingOpening # NoOpening
  /\ pendingSnap # NoSnap
  /\ draft = NoDraft
  /\ activeWallTool = "rectangle"
  /\ Len(elements) > 4

----------------------------------------------------------------------------
(* The selection *)

\* C35: the selected element id is none or the id of an element of the document.
C35_SelectionPresent ==
  selectedElementId = 0 \/ HasId(elements, selectedElementId)

\* An element is selected in a document from which an element was deleted or
\* undone, with snapshots left to undo.
C35_Witness ==
  /\ selectedElementId # 0
  /\ elements # <<>>
  /\ Len(elements) < nextId - 1
  /\ Len(history) > 1

----------------------------------------------------------------------------
(* The wall an opening is committed on *)

\* The openings of the next document that the step created or changed.
Committed ==
  {i \in 1..Len(elements') :
     /\ IsOpening(elements'[i])
     /\ ~\E j \in 1..Len(elements) : elements[j] = elements'[i]}

\* C36 as stated: when an opening is created or repositioned, its wallId names
\* a wall of the document and its wallPathLength is the length of that wall's
\* path as the document has it at that moment, its distanceAlongPath lying on
\* that path.
C36_CommitOnCurrentWall_Stated ==
  [][ ( \/ (pendingOpening # NoOpening /\ pendingSnap # NoSnap /\ handleStageMouseDown(P0))
        \/ \E id \in Ids, p \in PointerPoints : handleOpeningDrag(id, p) ) =>
        \A i \in Committed :
          LET geometry == elements'[i].geometry
          IN /\ HasId(elements', geometry.wallId)
             /\ IsWall(ElementById(elements', geometry.wallId))
             /\ geometry.wallPathLength
                  = getPathLength(getWallPathPoints(ElementById(elements', geometry.wallId)))
             /\ geometry.distanceAlongPath <= geometry.wallPathLength
    ]_vars

----------------------------------------------------------------------------
(* The history across steps *)

\* C39 as stated: after the user has left the Layout step and come back, the
\* document is unchanged and the snapshots pushed before can still be undone.
C39_HistorySurvivesSwitch_Stated ==
  [][ reopenLayoutStage => (elements' = elements /\ history' = history) ]_vars

----------------------------------------------------------------------------
(* Element ids *)

DocIds(doc) == {doc[i].id : i \in 1..Len(doc)}

\* The ids of the document and of every snapshot undo can still restore.
KnownIds == DocIds(elements) \cup UNION {DocIds(history[k]) : k \in 1..Len(history)}

----------------------------------------------------------------------------
(* Render jobs *)

JobIds(jobs) == {jobs[k].id : k \in 1..Len(jobs)}
JobOf(jobs, jobId) == jobs[CHOOSE k \in 1..Len(jobs) : jobs[k].id = jobId]

\* C22: a request submitted while an earlier one is in flight adds an entry
\* with an id of its own in front of the entries there were (fewer than the
\* five the list holds), which all stay as they are; and when a request succeeds or fails, in whatever order, the entry
\* carrying its job id becomes complete with the request's image, or idle, and
\* every other entry stays as it is.
C22_IndependentJobs ==
  [][ /\ (renderRequests # {} /\ renderRequests' # renderRequests
             /\ renderRequests \subseteq renderRequests'
             /\ Len(renderJobs) < RenderJobLimit)
        => /\ Len(renderJobs') = Len(renderJobs) + 1
           /\ renderJobs'[1].id \notin JobIds(renderJobs)
           /\ renderJobs'[1].status = "processing"
           /\ renderRequests' = renderRequests \cup {renderJobs'[1].id}
           /\ \A k \in 1..Len(renderJobs) : renderJobs'[k + 1] = renderJobs[k]
      /\ \A jobId \in renderRequests \ renderRequests' :
           /\ Len(renderJobs') = Len(renderJobs)
           /\ \A k \in 1..Len(renderJobs) :
                IF renderJobs[k].id = jobId
                  THEN /\ renderJobs'[k].id = jobId
                       /\ renderJobs'[k].prompt = renderJobs[k].prompt
                       /\ \/ /\ renderJobs'[k].status = "complete"
                             /\ renderJobs'[k].imageUrl = ImageOf(jobId)
                          \/ /\ renderJobs'[k].status = "idle"
                             /\ renderJobs'[k].imageUrl = renderJobs[k].imageUrl
                  ELSE renderJobs'[k] = renderJobs[k]
    ]_vars

\* Two requests were in flight together and the later one has returned its
\* image while the earlier one is still processing.
C22_Witness ==
  /\ Len(renderJobs) = 2
  /\ renderJobs[1].status = "complete" /\ renderJobs[1].imageUrl = ImageOf(renderJobs[1].id)
  /\ renderJobs[2].status = "processing" /\ renderJobs[2].imageUrl = 0
  /\ renderRequests = {renderJobs[2].id}

\* C40: the job list holds at most five entries, newest first; a request
\* submitted when it holds five puts its entry in front of the four newest
\* and drops the oldest one, in flight or not; and when the request of an
\* entry that is no longer in the list returns, with an image or an error,
\* the list stays as it is, entry for entry.
C40_FiveNewestJobs ==
  [][ /\ Len(renderJobs') <= RenderJobLimit
      /\ \A k \in 1..(Len(renderJobs') - 1) : renderJobs'[k].id > renderJobs'[k + 1].id
      /\ (onSubmit(QueuePrompt, TRUE) /\ Len(renderJobs) = RenderJobLimit)
           => /\ Len(renderJobs') = RenderJobLimit
              /\ renderJobs'[1].id = nextId
              /\ renderJobs'[1].status = "processing"
              /\ \A k \in 1..(RenderJobLimit - 1) : renderJobs'[k + 1] = renderJobs[k]
              /\ renderJobs[RenderJobLimit].id \notin JobIds(renderJobs')
      /\ \A jobId \in renderRequests \ JobIds(renderJobs) :
           (renderSuccess(jobId) \/ renderError(jobId)) => renderJobs' = renderJobs
    ]_vars

\* The list is full, its first entry was dropped while its request was in
\* flight, that request has returned since, and the entries of the list
\* are the five newest with one of them still processing.
C40_Witness ==
  /\ Len(renderJobs) = RenderJobLimit
  /\ nextId = RenderJobLimit + 2
  /\ 1 \in obs.lateReturns
  /\ 1 \notin JobIds(renderJobs)
  /\ renderJobs[1].id = RenderJobLimit + 1
  /\ renderJobs[RenderJobLimit].status = "processing"

====
